---- MODULE Spec2Model ----
(***************************************************************************)
(* Tutor planner (src/app.js): the session store, the clash gate, the      *)
(* lifecycle handlers and the report classifier, as a state machine.       *)
(*                                                                         *)
(* Representation                                                          *)
(*  - A wall-clock string "HH:MM" is the sequence of its four digits       *)
(*    <<h1,h2,m1,m2>> (the colon sits at a fixed position); the empty      *)
(*    string is <<>>.  JavaScript's < on such strings is the lexicographic *)
(*    order StrLT below; Number()-parsing is ParseMinutes.                 *)
(*  - A calendar date string "YYYY-MM-DD" is <<n>>, n the day number       *)
(*    counted from the Monday of the week the page was opened in (day 0);  *)
(*    an absent date (undefined) is <<>>.  Equal-width ISO strings compare *)
(*    as their day numbers do.                                             *)
(*  - A Date object is a local (day number, minute of day) pair; the       *)
(*    toISOString() conversion goes through UTC (ToISODate).               *)
(*  - An absent boolean field of a session (undefined) is FALSE, an absent *)
(*    cancelReason is "".  pendingSince, customCancelReason and the text   *)
(*    of timestamps carry no decision in the handlers and are left out;    *)
(*    cancelledAt is kept as present/absent.                               *)
(***************************************************************************)
EXTENDS Integers, Sequences, FiniteSets, TLC

\* ---------------------------------------------------------------- bounds
MaxClasses == 2        \* the modal, the drag and the single copy work on collections
                       \* of at most this many sessions
MaxBulk == 5           \* sessions a bulk copy may grow the collection to
MaxWeekOffset == 1     \* weeks the grid may be navigated ahead

\* ------------------------------------------------------------- constants
DAYS == <<"Monday", "Tuesday", "Wednesday", "Thursday", "Friday", "Saturday", "Sunday">>

MinutesPerDay == 24 * 60

\* The time input's value for hour h, minute m: zero-padded HH:MM.
HHMM(h, m) == <<h \div 10, h % 10, m \div 10, m % 10>>

NoTime == <<>>
NoDate == <<>>

\* ------------------------------------------------------ input alphabets
StudentInputs == {"Asha"}
DayInputs == {"Monday", "Tuesday"}
CancelReasons == {"other"}
\* The page is open at 10:00 in Asia/Kolkata (UTC+05:30), on the Wednesday
\* of the week counted as week 0 (Today is set below, where DAYS can be
\* searched).
OpenedAt == 10 * 60
KolkataOffset == 5 * 60 + 30

\* ------------------------------------------------------- time arithmetic
RECURSIVE StrLT(_, _)
\* JavaScript a < b on two strings of digits (lexicographic, prefix first).
StrLT(a, b) ==
  IF b = <<>> THEN FALSE
  ELSE IF a = <<>> THEN TRUE
  ELSE IF a[1] # b[1] THEN a[1] < b[1]
  ELSE StrLT(Tail(a), Tail(b))

StrLE(a, b) == a = b \/ StrLT(a, b)

\* "HH:MM".split(":").map(Number) folded to minutes of the day.
ParseMinutes(t) == (t[1] * 10 + t[2]) * 60 + t[3] * 10 + t[4]

\* Start and end as the form may hold them: two lessons back to back, and
\* an end that is not after its start.
TimePairs ==
  {<<HHMM(9, 0), HHMM(10, 0)>>, <<HHMM(10, 0), HHMM(11, 0)>>, <<HHMM(10, 0), HHMM(10, 0)>>}

timesOverlap_closed(a, b) == StrLE(a.start, b.end) /\ StrLE(b.start, a.end)

timesOverlap(a, b) == StrLT(a.start, b.end) /\ StrLT(b.start, a.end)

getMinutesBetween(start, end) == ParseMinutes(end) - ParseMinutes(start)

\* DAYS.indexOf(day): zero-based, -1 when absent.
IndexOfDay(day) ==
  IF \E i \in 1..Len(DAYS) : DAYS[i] = day
  THEN (CHOOSE i \in 1..Len(DAYS) : DAYS[i] = day) - 1
  ELSE -1

\* The day number of the day the page is opened on.
Today == IndexOfDay("Wednesday")

\* ------------------------------------------------------------- sessions
NewSession(student, day, date, start, end) ==
  [student |-> student, day |-> day, date |-> date, start |-> start, end |-> end,
   cancelled |-> FALSE, cancelReason |-> "", cancelledAt |-> FALSE,
   pendingConfirmation |-> FALSE, allowedClash |-> FALSE, completedDate |-> FALSE]

HasDate(c) == c.date # NoDate

\* parseInt(localStorage.getItem('defaultRate')) || 500 on a first visit.
InitialDefaultRate == 500

\* ---------------------------------------------------------------- state
VARIABLES
  classes,             \* let classes: the session collection (1-based here)
  persisted,           \* localStorage "classes"
  selectedClasses,     \* let selectedClasses: the indices ticked in select mode (1-based)
  isSelectMode,
  editingIndex,        \* 1-based index of the session in the modal, 0 for null
  currentWeekOffset,
  allowClashOverride,
  draggedClassIndex,   \* 1-based, 0 for null
  isCopyDrag,
  ui,                  \* which elements are shown (classList without "hidden")
  studentRates,        \* student -> hourly rate, the entries that exist
  paymentStatus,       \* payment key -> paid flag, the entries that exist
  defaultRate,
  storage,             \* localStorage: the other keys the page writes
  notificationsEnabled,
  notifiedClasses,     \* let notifiedClasses: the class ids reminded of
  reminders,           \* the reminders sent: one <<local day, class id>> per call of sendClassReminder
  today,               \* local calendar day number of "now"
  nowMin,              \* local minute of the day of "now"
  tzOffset,            \* minutes the local zone is ahead of UTC
  reportOffset,        \* let reportOffset: weeks the report is moved from this week
  probeArgs,           \* arguments a pure function is applied to, <<>> when none
  probeResult,         \* what it returned, <<>> before the call
  tutorClasses,        \* Firestore users/tutor: the classes array of the document
  notified,            \* Firestore collection "notified": the ids of its documents
  invocations,         \* the runs of checkClassReminders: where each one is
  delivered            \* the ids of the reminders messaging.send has delivered

storeVars == <<classes, persisted, selectedClasses>>
ledgerVars == <<studentRates, paymentStatus, defaultRate, storage>>
clockVars == <<today, nowMin, tzOffset>>
probeVars == <<probeArgs, probeResult>>
\* What the handlers of the timetable page leave alone.
cloudVars == <<tutorClasses, notified, invocations, delivered>>
envVars == <<clockVars, reportOffset, probeVars, cloudVars>>
dragVars == <<draggedClassIndex, isCopyDrag>>
\* Select mode and the reminders, which the handlers of the form, of the drag
\* and of the report leave alone.
pageVars == <<isSelectMode, notificationsEnabled, notifiedClasses, reminders>>
formVars == <<editingIndex, allowClashOverride, ui>>
vars == <<storeVars, ledgerVars, pageVars, envVars, dragVars, formVars, currentWeekOffset>>

\* -------------------------------------------------------- dates and weeks
\* Date.getDay(): 0 = Sunday .. 6 = Saturday (day number 0 is a Monday).
getDay(d) == (d + 1) % 7

\* The local day number of the Monday of the week `offset` weeks from now;
\* the Date returned keeps the current time of day (nowMin).
getWeekStartDate(offset) ==
  LET dayOfWeek == getDay(today)
      diff == IF dayOfWeek = 0 THEN -6 ELSE 1 - dayOfWeek
  IN today + diff + offset * 7

\* date.toISOString().split('T')[0] of the local instant (day, min): the
\* calendar date in UTC.
ToISODate(day, min) == <<(day * MinutesPerDay + min - tzOffset) \div MinutesPerDay>>

\* new Date(weekStart); setDate(getDate() + dayIndex); toISOString()...
DayDate(weekStart, dayIndex) == ToISODate(weekStart + dayIndex, nowMin)

\* ----------------------------------------------------------- clash gate
hasClashIn_noCancelSkip(cs, newClass, excludeIndex) ==
  \E i \in 1..Len(cs) :
    /\ ~(excludeIndex # 0 /\ i = excludeIndex)
    /\ IF newClass.date # NoDate THEN cs[i].date = newClass.date
                                 ELSE cs[i].day = newClass.day
    /\ timesOverlap(newClass, cs[i])

hasClashIn_skipPending(cs, newClass, excludeIndex) ==
  \E i \in 1..Len(cs) :
    /\ ~(excludeIndex # 0 /\ i = excludeIndex)
    /\ ~cs[i].cancelled
    /\ ~cs[i].pendingConfirmation
    /\ IF newClass.date # NoDate THEN cs[i].date = newClass.date
                                 ELSE cs[i].day = newClass.day
    /\ timesOverlap(newClass, cs[i])

\* hasClash over a given collection (the loops of the bulk copies call it
\* on the collection as grown so far).
hasClashIn(cs, newClass, excludeIndex) ==
  \E i \in 1..Len(cs) :
    /\ ~(excludeIndex # 0 /\ i = excludeIndex)
    /\ ~cs[i].cancelled
    /\ IF newClass.date # NoDate THEN cs[i].date = newClass.date
                                 ELSE cs[i].day = newClass.day
    /\ timesOverlap(newClass, cs[i])

hasClash(newClass, excludeIndex) == hasClashIn(classes, newClass, excludeIndex)

\* ------------------------------------------------------------ the modal
HiddenUI ==
  [modal |-> FALSE, deleteBtn |-> FALSE, duplicateBtn |-> FALSE,
   cancelSection |-> FALSE, restoreSection |-> FALSE,
   pendingConfirmSection |-> FALSE, copyToDaySection |-> FALSE,
   checkWithStudentBtn |-> FALSE, formClashWarning |-> FALSE]

\* resetFormUI: hides the sections; the caller clears allowClashOverride.
resetFormUI(u) ==
  [u EXCEPT !.formClashWarning = FALSE, !.copyToDaySection = FALSE,
            !.cancelSection = FALSE, !.restoreSection = FALSE,
            !.pendingConfirmSection = FALSE, !.checkWithStudentBtn = FALSE]

\* closeModal: modal hidden, editingIndex = null, resetFormUI(). The two
\* buttons inside the hidden modal are out of sight with it; both ways of
\* opening the modal set them anew.
closeModalUI(u) ==
  [resetFormUI(u) EXCEPT !.modal = FALSE, !.deleteBtn = FALSE, !.duplicateBtn = FALSE]

\* A card for classes[i] exists in the grid of the displayed week.
Rendered(i) ==
  \E k \in 0..6 : classes[i].date = DayDate(getWeekStartDate(currentWeekOffset), k)

\* A backup record of createAutoBackup or cleanupOldClasses; `classes` is
\* the field the recovery reads (classes, or allClasses of a cleanup backup).
Backup(cs, rates, payments, rate) ==
  [classes |-> cs, studentRates |-> rates, paymentStatus |-> payments, defaultRate |-> rate]

\* localStorage after the first visit: no rates, no payments and no default
\* rate were written (<<>>: the key is absent); checkAndCreateBackup has
\* stored the auto backup of the empty timetable.
FirstVisitStorage ==
  [studentRates |-> <<>>, paymentStatus |-> <<>>, defaultRate |-> <<>>,
   autoBackups |-> <<Backup(<<>>, <<>>, <<>>, InitialDefaultRate)>>,
   cleanupBackups |-> <<>>, lastBackupDate |-> Today]

\* The runs of the scheduled function checkClassReminders that may be in
\* progress at once.
MaxInvocations == 2

\* A run that has not begun: pc is the await it is at, idx the element of
\* the loop, day and min the IST clock it read when it began.
IdleInvocation == [pc |-> "idle", idx |-> 0, day |-> 0, min |-> 0]

\* No run of the function has begun: no marker, nothing delivered.
NoRunBegun ==
  /\ notified = {}
  /\ invocations = [k \in 1..MaxInvocations |-> IdleInvocation]
  /\ delivered = <<>>

\* The cloud project before any run, the tutor document without lessons.
CloudIdle == tutorClasses = <<>> /\ NoRunBegun

\* The module-level state of a freshly loaded page.
ScriptLoaded ==
  /\ CloudIdle
  /\ editingIndex = 0
  /\ currentWeekOffset = 0
  /\ allowClashOverride = FALSE
  /\ draggedClassIndex = 0
  /\ isCopyDrag = FALSE
  /\ ui = HiddenUI
  /\ studentRates = <<>>
  /\ paymentStatus = <<>>
  /\ defaultRate = InitialDefaultRate
  /\ selectedClasses = {}
  /\ isSelectMode = FALSE
  /\ notificationsEnabled = FALSE
  /\ notifiedClasses = {}
  /\ reminders = <<>>
  /\ reportOffset = 0
  /\ today = Today
  /\ nowMin = OpenedAt
  /\ tzOffset = KolkataOffset

\* The page loaded within a week of the first visit.
PageLoaded == ScriptLoaded /\ storage = FirstVisitStorage

\* First visit: nothing stored.
Init ==
  /\ PageLoaded
  /\ classes = <<>>
  /\ persisted = <<>>
  /\ probeArgs = <<>>
  /\ probeResult = <<>>

\* --------------------------------------------------------------- modal
OpenAddModal ==
  /\ ~ui.modal /\ draggedClassIndex = 0
  /\ Len(classes) <= MaxClasses
  /\ editingIndex' = 0
  /\ allowClashOverride' = FALSE
  /\ ui' = [resetFormUI(ui) EXCEPT !.modal = TRUE, !.deleteBtn = FALSE,
                                   !.duplicateBtn = FALSE, !.checkWithStudentBtn = TRUE]
  /\ UNCHANGED <<storeVars, ledgerVars, pageVars, envVars, dragVars, currentWeekOffset>>

\* index < 0 || index >= classes.length, for the 1-based index of the model.
InvalidIndex(index, cs) == index < 1 \/ index > Len(cs)

\* An openEditModal that takes the index before it validates it.
openEditModal_assignsFirst(index) ==
  [editingIndex |-> index, ui |-> ui]

\* An openEditModal that shows the check-with-student button for every
\* session, cancelled and pending ones too.
openEditModal_alwaysCheckButton(index) ==
  IF InvalidIndex(index, classes) THEN [editingIndex |-> editingIndex, ui |-> ui]
  ELSE LET cls == classes[index]
           confirmed == ~cls.cancelled /\ ~cls.pendingConfirmation
       IN [editingIndex |-> index,
           ui |-> [ui EXCEPT !.modal = TRUE, !.deleteBtn = TRUE, !.duplicateBtn = TRUE,
                             !.cancelSection = confirmed,
                             !.restoreSection = cls.cancelled,
                             !.copyToDaySection = confirmed,
                             !.pendingConfirmSection =
                               ~cls.cancelled /\ cls.pendingConfirmation,
                             !.checkWithStudentBtn = TRUE,
                             !.formClashWarning = FALSE]]

\* openEditModal: what it leaves in editingIndex and in the modal.
openEditModal(index) ==
  IF InvalidIndex(index, classes) THEN [editingIndex |-> editingIndex, ui |-> ui]
  ELSE LET cls == classes[index]
           confirmed == ~cls.cancelled /\ ~cls.pendingConfirmation
       IN [editingIndex |-> index,
           ui |-> [ui EXCEPT !.modal = TRUE, !.deleteBtn = TRUE, !.duplicateBtn = TRUE,
                             !.cancelSection = confirmed,
                             !.restoreSection = cls.cancelled,
                             !.copyToDaySection = confirmed,
                             !.pendingConfirmSection =
                               ~cls.cancelled /\ cls.pendingConfirmation,
                             !.checkWithStudentBtn = confirmed,
                             !.formClashWarning = FALSE]]

\* A click on the card of session `index`; the cards of the grid carry the
\* indices of the rendered sessions, a card of an earlier rendering may
\* carry an index the collection no longer has.
OpenEditModal(index) ==
  /\ ~ui.modal /\ draggedClassIndex = 0 /\ ~isSelectMode
  /\ ~InvalidIndex(index, classes) => Rendered(index)
  /\ Len(classes) <= MaxClasses
  /\ LET r == openEditModal(index)
     IN /\ editingIndex' = r.editingIndex
        /\ ui' = r.ui
  /\ UNCHANGED <<storeVars, ledgerVars, pageVars, envVars, dragVars, allowClashOverride,
                 currentWeekOffset>>

CloseModal ==
  /\ ui.modal
  /\ ui' = closeModalUI(ui)
  /\ editingIndex' = 0
  /\ allowClashOverride' = FALSE
  /\ UNCHANGED <<storeVars, ledgerVars, pageVars, envVars, dragVars, currentWeekOffset>>

\* saveClasses: localStorage.setItem("classes", JSON.stringify(classes)).
\* Absent and false/undefined fields coincide in this representation, so the
\* serialised collection is the collection itself.
saveClasses(cs) == cs

\* if (allowClashOverride) cls.allowedClash = true
markAllowedClash_never(cls, ov) == cls

markAllowedClash(cls, ov) == IF ov THEN [cls EXCEPT !.allowedClash = TRUE] ELSE cls

\* checkForClashes, run at the end of every renderWeekGrid: whether the
\* clash warning banner is shown over the collection cs.
checkForClashes(cs) ==
  \E k \in 1..7 :
    LET dayClasses == SelectSeq(cs, LAMBDA c : c.day = DAYS[k] /\ ~c.cancelled)
    IN \E i, j \in 1..Len(dayClasses) :
         /\ i < j
         /\ timesOverlap(dayClasses[i], dayClasses[j])
         /\ ~dayClasses[i].allowedClash /\ ~dayClasses[j].allowedClash

\* ------------------------------------------------- handlers that may refuse
\* What such a handler leaves behind: the collection, the localStorage
\* record, whether saveClasses() ran, whether it went on to closeModal() and
\* whether it showed the clash warning of the form.
Returned(warns) ==
  [classes |-> classes, persisted |-> persisted, saved |-> FALSE, closes |-> FALSE,
   warns |-> warns]

\* The collection is replaced by cs, saveClasses() runs, the handler goes on.
Stored(cs) ==
  [classes |-> cs, persisted |-> saveClasses(cs), saved |-> TRUE, closes |-> TRUE,
   warns |-> FALSE]

\* A handler's outcome r applied to the collection and its record;
\* saveClasses() clears the selection.
ApplyToStore(r) ==
  /\ classes' = r.classes
  /\ persisted' = r.persisted
  /\ selectedClasses' = IF r.saved THEN {} ELSE selectedClasses

\* A form handler's outcome r applied to the page; ov and u are the override
\* flag and the modal's elements as the handler found them.
ApplyToForm(r, ov, u) ==
  /\ ApplyToStore(r)
  /\ ui' = IF r.closes THEN closeModalUI(u)
           ELSE IF r.warns THEN [u EXCEPT !.formClashWarning = TRUE]
           ELSE u
  /\ editingIndex' = IF r.closes THEN 0 ELSE editingIndex
  /\ allowClashOverride' = IF r.closes THEN FALSE ELSE ov   \* resetFormUI()

\* ---------------------------------------------------------- form submit
\* handleFormSubmit writing the record before it asks the gate.
handleFormSubmit_storesBeforeGate(ov, studentName, day, start, end) ==
  LET weekStart == getWeekStartDate(currentWeekOffset)
      cls0 == NewSession(studentName, day, DayDate(weekStart, IndexOfDay(day)), start, end)
      cls == markAllowedClash(cls0, ov)
      cs == IF editingIndex # 0 THEN [classes EXCEPT ![editingIndex] = cls]
            ELSE Append(classes, cls)
  IN IF studentName = "" THEN Returned(FALSE)
     ELSE IF StrLE(cls.end, cls.start) THEN Returned(FALSE)
     ELSE IF hasClash(cls0, editingIndex) /\ ~ov
     THEN [Stored(cs) EXCEPT !.closes = FALSE, !.warns = TRUE]
     ELSE Stored(cs)

\* The body of handleFormSubmit, run with override flag `ov`. The form's day
\* and time fields are filled (the Save button submits through the browser's
\* form validation; handleAllowClash dispatches only with the warning shown).
handleFormSubmit(ov, studentName, day, start, end) ==
  LET weekStart == getWeekStartDate(currentWeekOffset)
      cls0 == NewSession(studentName, day, DayDate(weekStart, IndexOfDay(day)), start, end)
      cls == markAllowedClash(cls0, ov)
  IN IF studentName = "" THEN Returned(FALSE)
     ELSE IF StrLE(cls.end, cls.start) THEN Returned(FALSE)
     ELSE IF hasClash(cls0, editingIndex) /\ ~ov THEN Returned(TRUE)
     ELSE Stored(IF editingIndex # 0 THEN [classes EXCEPT ![editingIndex] = cls]
                 ELSE Append(classes, cls))

HandleFormSubmit(studentName, day, start, end) ==
  /\ ui.modal
  /\ editingIndex # 0 \/ Len(classes) < MaxClasses
  /\ ApplyToForm(handleFormSubmit(allowClashOverride, studentName, day, start, end),
                 allowClashOverride, ui)
  /\ UNCHANGED <<ledgerVars, pageVars, envVars, dragVars, currentWeekOffset>>

\* The Allow Clash button sits in the clash warning. With the form holding
\* (day, start, end) the warning is shown if checkFormClash, which runs on
\* every change of these fields, finds a clash on the date, or if a refused
\* handleCheckWithStudent has shown it for them (its gate compares weekday
\* names) and they were not changed since.
AllowClashShown(day, start, end) ==
  LET weekStart == getWeekStartDate(currentWeekOffset)
      testClass == NewSession("", day, DayDate(weekStart, IndexOfDay(day)), start, end)
      undated == NewSession("", day, NoDate, start, end)
  IN \/ hasClash(testClass, editingIndex)
     \/ /\ ui.formClashWarning /\ ui.checkWithStudentBtn /\ ~allowClashOverride
        /\ ~StrLE(end, start)
        /\ hasClash(undated, editingIndex)

\* handleAllowClash: allowClashOverride = true, the warning hidden, and the
\* submit event dispatched.
HandleAllowClash(studentName, day, start, end) ==
  /\ ui.modal
  /\ AllowClashShown(day, start, end)
  /\ editingIndex # 0 \/ Len(classes) < MaxClasses
  /\ ApplyToForm(handleFormSubmit(TRUE, studentName, day, start, end),
                 TRUE, [ui EXCEPT !.formClashWarning = FALSE])
  /\ UNCHANGED <<ledgerVars, pageVars, envVars, dragVars, currentWeekOffset>>

\* ---------------------------------------------------- check with student
handleCheckWithStudent(studentName, day, start, end) ==
  LET cls0 == [NewSession(studentName, day, NoDate, start, end)
                 EXCEPT !.pendingConfirmation = TRUE]
      cls == markAllowedClash(cls0, allowClashOverride)
      old == classes[editingIndex]
      \* { ...classes[editingIndex], ...cls }
      merged == [old EXCEPT !.student = cls.student, !.day = cls.day,
                            !.start = cls.start, !.end = cls.end,
                            !.pendingConfirmation = TRUE,
                            !.allowedClash = IF allowClashOverride THEN TRUE ELSE @]
  IN IF studentName = "" THEN Returned(FALSE)
     ELSE IF day = "" \/ start = NoTime \/ end = NoTime THEN Returned(FALSE)
     ELSE IF StrLE(end, start) THEN Returned(FALSE)
     ELSE IF hasClash(cls0, editingIndex) /\ ~allowClashOverride THEN Returned(TRUE)
     ELSE Stored(IF editingIndex # 0 THEN [classes EXCEPT ![editingIndex] = merged]
                 ELSE Append(classes, cls))

HandleCheckWithStudent(studentName, day, start, end) ==
  /\ ui.modal /\ ui.checkWithStudentBtn
  /\ editingIndex # 0 \/ Len(classes) < MaxClasses
  /\ ApplyToForm(handleCheckWithStudent(studentName, day, start, end),
                 allowClashOverride, ui)
  /\ UNCHANGED <<ledgerVars, pageVars, envVars, dragVars, currentWeekOffset>>

\* ----------------------------------------------------------- copy to days
RECURSIVE CopyToDaysLoop(_, _, _, _, _)
\* selectedDays.forEach: push the copy for each day that passes the gate.
CopyToDaysLoop(cs, days, studentName, start, end) ==
  IF days = <<>> THEN cs
  ELSE LET day == Head(days)
           weekStart == getWeekStartDate(currentWeekOffset)
           newClass == NewSession(studentName, day, DayDate(weekStart, IndexOfDay(day)), start, end)
           next == IF ~hasClashIn(cs, newClass, 0) THEN Append(cs, newClass) ELSE cs
       IN CopyToDaysLoop(next, Tail(days), studentName, start, end)

\* The checked day boxes, in document (weekday) order.
CheckedDays(S) == SelectSeq(DAYS, LAMBDA d : d \in S)

\* handleCopyToDays: saves when a copy was added; the modal stays open.
handleCopyToDays(studentName, start, end, checked) ==
  IF studentName = "" \/ start = NoTime \/ end = NoTime THEN Returned(FALSE)
  ELSE IF checked = {} THEN Returned(FALSE)
  ELSE LET result == CopyToDaysLoop(classes, CheckedDays(checked), studentName, start, end)
           addedCount == Len(result) - Len(classes)
       IN [classes |-> result,
           persisted |-> IF addedCount > 0 THEN saveClasses(result) ELSE persisted,
           saved |-> addedCount > 0, closes |-> FALSE, warns |-> FALSE]

HandleCopyToDays(studentName, start, end, checked) ==
  /\ ui.modal /\ ui.copyToDaySection
  /\ LET r == handleCopyToDays(studentName, start, end, checked)
     IN /\ Len(r.classes) <= MaxClasses
        /\ ApplyToStore(r)
  /\ UNCHANGED <<ledgerVars, pageVars, envVars, dragVars, formVars, currentWeekOffset>>

\* ------------------------------------------------------------ lifecycle
HandleConfirmClass ==
  /\ ui.modal /\ ui.pendingConfirmSection
  /\ IF editingIndex = 0
     THEN /\ UNCHANGED <<storeVars, formVars>>
     ELSE /\ classes' = [classes EXCEPT ![editingIndex].pendingConfirmation = FALSE]
          /\ persisted' = saveClasses(classes')
          /\ selectedClasses' = {}
          /\ ui' = closeModalUI(ui)
          /\ editingIndex' = 0
          /\ allowClashOverride' = FALSE
  /\ UNCHANGED <<ledgerVars, pageVars, envVars, dragVars, currentWeekOffset>>

\* reason: the button pressed; customReason: whether the prompt of reason
\* 'other' was answered with a text.
HandleCancelClass(reason, customReason) ==
  /\ ui.modal /\ ui.cancelSection
  /\ IF editingIndex = 0 \/ (reason = "other" /\ ~customReason)
     THEN /\ UNCHANGED <<storeVars, formVars>>
     ELSE /\ classes' = [classes EXCEPT ![editingIndex].cancelled = TRUE,
                                        ![editingIndex].cancelReason = reason,
                                        ![editingIndex].cancelledAt = TRUE]
          /\ persisted' = saveClasses(classes')
          /\ selectedClasses' = {}
          /\ ui' = closeModalUI(ui)
          /\ editingIndex' = 0
          /\ allowClashOverride' = FALSE
  /\ UNCHANGED <<ledgerVars, pageVars, envVars, dragVars, currentWeekOffset>>

\* The restore-time re-check of handleRestoreClass.
restoreWouldClash(cs, index) ==
  LET testClass == [cs[index] EXCEPT !.cancelled = FALSE, !.cancelReason = "",
                                     !.cancelledAt = FALSE]
  IN \E i \in 1..Len(cs) :
       /\ i # index
       /\ ~cs[i].cancelled
       /\ cs[i].day = testClass.day
       /\ timesOverlap(testClass, cs[i])

HandleRestoreClass ==
  /\ ui.modal /\ ui.restoreSection
  /\ IF editingIndex = 0
     THEN /\ UNCHANGED <<storeVars, formVars>>
     ELSE IF restoreWouldClash(classes, editingIndex)
     THEN /\ UNCHANGED <<storeVars, formVars>>
     ELSE /\ classes' = [classes EXCEPT ![editingIndex].cancelled = FALSE,
                                        ![editingIndex].cancelReason = "",
                                        ![editingIndex].cancelledAt = FALSE]
          /\ persisted' = saveClasses(classes')
          /\ selectedClasses' = {}
          /\ ui' = closeModalUI(ui)
          /\ editingIndex' = 0
          /\ allowClashOverride' = FALSE
  /\ UNCHANGED <<ledgerVars, pageVars, envVars, dragVars, currentWeekOffset>>

\* classes.splice(index, 1)
RemoveAt(cs, index) == [j \in 1..(Len(cs) - 1) |-> IF j < index THEN cs[j] ELSE cs[j + 1]]

\* handleDelete with the confirm() dialog accepted.
HandleDelete ==
  /\ ui.modal /\ ui.deleteBtn
  /\ editingIndex # 0
  /\ classes' = RemoveAt(classes, editingIndex)
  /\ persisted' = saveClasses(classes')
  /\ selectedClasses' = {}
  /\ ui' = closeModalUI(ui)
  /\ editingIndex' = 0
  /\ allowClashOverride' = FALSE
  /\ UNCHANGED <<ledgerVars, pageVars, envVars, dragVars, currentWeekOffset>>

\* handleDuplicate: closeModal(), then (its 100 ms timer, taken to fire
\* before the next event) the add form, pre-filled, with the copy-to-day
\* section shown.
HandleDuplicate ==
  /\ ui.modal /\ ui.duplicateBtn
  /\ editingIndex # 0
  /\ ui' = [closeModalUI(ui) EXCEPT !.modal = TRUE, !.deleteBtn = FALSE,
                                    !.duplicateBtn = FALSE, !.copyToDaySection = TRUE]
  /\ editingIndex' = 0
  /\ allowClashOverride' = FALSE
  /\ UNCHANGED <<storeVars, ledgerVars, pageVars, envVars, dragVars, currentWeekOffset>>

\* ----------------------------------------------------------------- grid
NavigateWeek(direction) ==
  /\ ~ui.modal /\ draggedClassIndex = 0
  /\ currentWeekOffset + direction \in 0..MaxWeekOffset
  /\ currentWeekOffset' = currentWeekOffset + direction
  /\ UNCHANGED <<storeVars, ledgerVars, pageVars, envVars, dragVars, formVars>>

\* getClassesInRange(startDate, endDate), a Date given as <<local day,
\* minute of the day>>: a snapshot of the dated sessions in the range.
getClassesInRange(cs, startDate, endDate) ==
  LET startStr == ToISODate(startDate[1], startDate[2])
      endStr == ToISODate(endDate[1], endDate[2])
      InRange(c) == HasDate(c) /\ c.date[1] >= startStr[1] /\ c.date[1] <= endStr[1]
  IN SelectSeq(cs, InRange)

RECURSIVE CopyWeekLoop(_, _)
\* currentWeekClasses.forEach of copyAllToNextWeek.
CopyWeekLoop(cs, todo) ==
  IF todo = <<>> THEN cs
  ELSE LET cls == Head(todo)
           nextWeekStart == getWeekStartDate(currentWeekOffset + 1)
           newClass == [cls EXCEPT !.date = DayDate(nextWeekStart, IndexOfDay(cls.day)),
                                   !.cancelled = FALSE, !.cancelReason = "",
                                   !.pendingConfirmation = FALSE, !.completedDate = FALSE]
           exists == \E i \in 1..Len(cs) :
                       /\ cs[i].student = newClass.student
                       /\ cs[i].date = newClass.date
                       /\ cs[i].start = newClass.start
                       /\ cs[i].end = newClass.end
           next == IF ~exists /\ ~hasClashIn(cs, newClass, 0) THEN Append(cs, newClass) ELSE cs
       IN CopyWeekLoop(next, Tail(todo))

\* showCopyWeekDialog, choice "1".
CopyAllToNextWeek ==
  /\ ~ui.modal /\ draggedClassIndex = 0
  /\ Len(classes) > 0
  /\ currentWeekOffset < MaxWeekOffset
  /\ LET currentWeekStart == getWeekStartDate(currentWeekOffset)
         currentWeekClasses == getClassesInRange(classes, <<currentWeekStart, nowMin>>,
                                                 <<currentWeekStart + 6, nowMin>>)
         result == CopyWeekLoop(classes, currentWeekClasses)
     IN IF currentWeekClasses = <<>>
        THEN /\ UNCHANGED storeVars
        ELSE /\ Len(result) <= MaxBulk
             /\ classes' = result
             /\ persisted' = saveClasses(classes')
             /\ selectedClasses' = {}
  /\ UNCHANGED <<ledgerVars, pageVars, envVars, dragVars, formVars, currentWeekOffset>>

RECURSIVE CopyMondayLoop(_, _, _)
\* mondayClasses.forEach x targetDays.forEach of copyMondayToWeekdays;
\* dayOffset runs over Tuesday (0) .. Friday (3).
CopyMondayLoop(cs, todo, dayOffset) ==
  IF todo = <<>> THEN cs
  ELSE IF dayOffset > 3 THEN CopyMondayLoop(cs, Tail(todo), 0)
  ELSE LET mondayClass == Head(todo)
           currentWeekStart == getWeekStartDate(currentWeekOffset)
           newClass == [mondayClass EXCEPT !.day = DAYS[dayOffset + 2],
                                           !.date = DayDate(currentWeekStart, dayOffset + 1),
                                           !.cancelled = FALSE, !.cancelReason = "",
                                           !.pendingConfirmation = FALSE]
           next == IF ~hasClashIn(cs, newClass, 0) THEN Append(cs, newClass) ELSE cs
       IN CopyMondayLoop(next, todo, dayOffset + 1)

\* showCopyWeekDialog, choice "2".
CopyMondayToWeekdays ==
  /\ ~ui.modal /\ draggedClassIndex = 0
  /\ Len(classes) > 0
  /\ LET mondayDateStr == DayDate(getWeekStartDate(currentWeekOffset), 0)
         IsMonday(c) == c.date = mondayDateStr
         mondayClasses == SelectSeq(classes, IsMonday)
         result == CopyMondayLoop(classes, mondayClasses, 0)
     IN IF mondayClasses = <<>>
        THEN /\ UNCHANGED storeVars
        ELSE /\ Len(result) <= MaxBulk
             /\ classes' = result
             /\ persisted' = saveClasses(classes')
             /\ selectedClasses' = {}
  /\ UNCHANGED <<ledgerVars, pageVars, envVars, dragVars, formVars, currentWeekOffset>>

\* showCopyClassDialog with the day chosen in the prompt.
showCopyClassDialog(classIndex, targetDay) ==
  IF InvalidIndex(classIndex, classes) THEN Returned(FALSE)
  ELSE LET cls == classes[classIndex]
           weekStart == getWeekStartDate(currentWeekOffset)
           newClass == [cls EXCEPT !.day = targetDay,
                                   !.date = DayDate(weekStart, IndexOfDay(targetDay)),
                                   !.cancelled = FALSE, !.cancelReason = "",
                                   !.cancelledAt = FALSE, !.pendingConfirmation = FALSE]
       IN IF hasClash(newClass, 0) THEN Returned(FALSE)
          ELSE Stored(Append(classes, newClass))

\* The copy button of a card (shown on confirmed sessions); the prompt
\* offers the other days.
ShowCopyClassDialog(classIndex, targetDay) ==
  /\ ~ui.modal /\ draggedClassIndex = 0 /\ ~isSelectMode
  /\ ~InvalidIndex(classIndex, classes)
       => /\ Rendered(classIndex)
          /\ ~classes[classIndex].cancelled /\ ~classes[classIndex].pendingConfirmation
          /\ targetDay # classes[classIndex].day
  /\ Len(classes) < MaxClasses
  /\ LET r == showCopyClassDialog(classIndex, targetDay)
     IN ApplyToStore(r)
  /\ UNCHANGED <<ledgerVars, pageVars, envVars, dragVars, formVars, currentWeekOffset>>

\* ------------------------------------------------------------ drag, drop
\* Cards are draggable when the session is neither cancelled nor pending.
\* handleDragStart: what it leaves in draggedClassIndex.
handleDragStart(index) ==
  IF InvalidIndex(index, classes) THEN draggedClassIndex ELSE index

HandleDragStart(index) ==
  /\ ~ui.modal /\ draggedClassIndex = 0 /\ ~isSelectMode
  /\ ~InvalidIndex(index, classes)
       => /\ Rendered(index)
          /\ ~classes[index].cancelled /\ ~classes[index].pendingConfirmation
  /\ Len(classes) <= MaxClasses
  /\ draggedClassIndex' = handleDragStart(index)
  /\ UNCHANGED <<storeVars, ledgerVars, pageVars, envVars, isCopyDrag, formVars, currentWeekOffset>>

\* keydown / keyup of Ctrl or Cmd. isCopyDrag is read by the drag handlers
\* only, so the key is followed while a drag is under way and is taken to be
\* released when the gesture ends.
KeyDown ==
  /\ draggedClassIndex # 0 /\ ~isCopyDrag
  /\ isCopyDrag' = TRUE
  /\ UNCHANGED <<storeVars, ledgerVars, pageVars, envVars, draggedClassIndex, formVars, currentWeekOffset>>

KeyUp ==
  /\ draggedClassIndex # 0 /\ isCopyDrag
  /\ isCopyDrag' = FALSE
  /\ UNCHANGED <<storeVars, ledgerVars, pageVars, envVars, draggedClassIndex, formVars, currentWeekOffset>>

\* The drag released outside a day column: dragend alone.
HandleDragEnd ==
  /\ draggedClassIndex # 0
  /\ draggedClassIndex' = 0
  /\ isCopyDrag' = FALSE
  /\ UNCHANGED <<storeVars, ledgerVars, pageVars, envVars, formVars, currentWeekOffset>>

\* The session a drag of classes[dragged] would leave on targetDay.
DroppedOn(dragged, targetDay) ==
  [classes[dragged] EXCEPT
     !.day = targetDay,
     !.date = DayDate(getWeekStartDate(currentWeekOffset), IndexOfDay(targetDay))]

\* handleDragOver on the column of targetDay with `dragged` in
\* draggedClassIndex: the class it puts on the column. Its testClass takes
\* the day of the column and keeps the date of the dragged session.
handleDragOver(dragged, targetDay) ==
  IF InvalidIndex(dragged, classes) THEN ""
  ELSE IF hasClash([classes[dragged] EXCEPT !.day = targetDay],
                  IF isCopyDrag THEN 0 ELSE dragged)
  THEN "drag-over-clash"
  ELSE "drag-over"

\* handleDrop on the column of targetDay with `dragged` in draggedClassIndex.
handleDropOf(dragged, targetDay) ==
  IF InvalidIndex(dragged, classes) THEN Returned(FALSE)
  ELSE LET newClass == DroppedOn(dragged, targetDay)
           excludeIndex == IF isCopyDrag THEN 0 ELSE dragged
           copy == [newClass EXCEPT !.cancelled = FALSE, !.cancelReason = "",
                                    !.pendingConfirmation = FALSE]
       IN IF hasClash(newClass, excludeIndex) THEN Returned(FALSE)
          ELSE Stored(IF isCopyDrag THEN Append(classes, copy)
                      ELSE [classes EXCEPT ![dragged] = newClass])

handleDrop(targetDay) == handleDropOf(draggedClassIndex, targetDay)

\* The drop event on the column of targetDay, and the dragend that ends
\* the gesture.
HandleDrop(targetDay) ==
  /\ draggedClassIndex # 0
  /\ ~isCopyDrag \/ Len(classes) < MaxClasses
  /\ LET r == handleDrop(targetDay)
     IN ApplyToStore(r)
  /\ draggedClassIndex' = 0
  /\ isCopyDrag' = FALSE
  /\ UNCHANGED <<ledgerVars, pageVars, envVars, formVars, currentWeekOffset>>

\* ------------------------------------------------------- load and clock
\* migrateClassesToDateFormat: a session without a date gets the date of its
\* weekday in the current week.
migrateClassesToDateFormat(cs) ==
  [i \in 1..Len(cs) |->
     IF ~HasDate(cs[i]) /\ IndexOfDay(cs[i].day) # -1
     THEN [cs[i] EXCEPT !.date = DayDate(getWeekStartDate(0), IndexOfDay(cs[i].day))]
     ELSE cs[i]]

\* A reload of the page: the module state is rebuilt from localStorage and
\* init() runs. Within a week of the first visit the auto backup is the one
\* of the empty first visit, and no session is three months old, so
\* checkAndRecoverData, cleanupOldClasses and checkAndCreateBackup change
\* nothing.
Reload ==
  /\ LET loaded == persisted
         needsMigration == \E i \in 1..Len(loaded) : ~HasDate(loaded[i])
     IN /\ classes' = migrateClassesToDateFormat(loaded)
        /\ persisted' = IF needsMigration THEN saveClasses(classes') ELSE persisted
  /\ selectedClasses' = {}
  /\ editingIndex' = 0
  /\ currentWeekOffset' = 0
  /\ allowClashOverride' = FALSE
  /\ draggedClassIndex' = 0
  /\ isCopyDrag' = FALSE
  /\ ui' = HiddenUI
  /\ isSelectMode' = FALSE
  /\ reportOffset' = 0
  /\ UNCHANGED <<cloudVars, ledgerVars, notificationsEnabled, notifiedClasses, reminders, clockVars,
                 probeVars>>

\* ------------------------------------------------------- specification
\* What the form may hold when a button is pressed: every filled
\* combination, and one with each field left empty.
FilledForms == {<<s, d, p[1], p[2]>> : s \in StudentInputs, d \in DayInputs, p \in TimePairs}

SomeForm == CHOOSE f \in FilledForms : TRUE

NamelessForms == {<<"", f[2], f[3], f[4]>> : f \in FilledForms}

PartialForms ==
  {<<SomeForm[1], "", SomeForm[3], SomeForm[4]>>,
   <<SomeForm[1], SomeForm[2], NoTime, SomeForm[4]>>,
   <<SomeForm[1], SomeForm[2], SomeForm[3], NoTime>>}

Next ==
  \/ OpenAddModal
  \/ \E index \in 0..(MaxClasses + 1) : OpenEditModal(index)
  \/ CloseModal
  \/ \E f \in FilledForms \cup NamelessForms : HandleFormSubmit(f[1], f[2], f[3], f[4])
  \/ \E f \in FilledForms \cup NamelessForms : HandleAllowClash(f[1], f[2], f[3], f[4])
  \/ \E f \in FilledForms \cup NamelessForms \cup PartialForms :
       HandleCheckWithStudent(f[1], f[2], f[3], f[4])
  \/ \E f \in FilledForms \cup NamelessForms \cup PartialForms, checked \in SUBSET DayInputs :
       HandleCopyToDays(f[1], f[3], f[4], checked)
  \/ HandleConfirmClass
  \/ \E reason \in CancelReasons, customReason \in BOOLEAN : HandleCancelClass(reason, customReason)
  \/ HandleRestoreClass
  \/ HandleDelete
  \/ HandleDuplicate
  \/ \E direction \in {-1, 1} : NavigateWeek(direction)
  \/ CopyAllToNextWeek
  \/ CopyMondayToWeekdays
  \/ \E index \in 0..(MaxClasses + 1), targetDay \in DayInputs :
       ShowCopyClassDialog(index, targetDay)
  \/ \E index \in 0..(MaxClasses + 1) : HandleDragStart(index)
  \/ KeyDown
  \/ KeyUp
  \/ HandleDragEnd
  \/ \E targetDay \in DayInputs : HandleDrop(targetDay)
  \/ Reload

Spec == Init /\ [][Next]_vars

\* --------------------------------------------- timesOverlap on its own
\* Well-formed zero-padded HH:MM values: the ends of the day, and values
\* around a change of the minutes' and of the hours' leading digit.
TimeSamples ==
  {HHMM(0, 0), HHMM(0, 59), HHMM(1, 0), HHMM(9, 59), HHMM(10, 0), HHMM(19, 0),
   HHMM(20, 0), HHMM(23, 59)}

TimeRanges == [start : TimeSamples, end : TimeSamples]

InitTime ==
  /\ PageLoaded
  /\ classes = <<>>
  /\ persisted = <<>>
  /\ probeArgs \in TimeRanges \X TimeRanges
  /\ probeResult = <<>>

\* timesOverlap(a, b) is called on the two ranges.
ApplyTimesOverlap ==
  /\ probeArgs # <<>> /\ probeResult = <<>>
  /\ probeResult' = <<timesOverlap(probeArgs[1], probeArgs[2])>>
  /\ UNCHANGED <<cloudVars, storeVars, ledgerVars, pageVars, clockVars, reportOffset, probeArgs, dragVars,
                 formVars, currentWeekOffset>>

NextTime == ApplyTimesOverlap

SpecTime == InitTime /\ [][NextTime]_vars

\* --------------------------------------------------------------- report
MaxReportOffset == 1   \* weeks the report may be moved either way
MaxDaysOpen == 4       \* days the page may stay open (Wednesday to Sunday)

\* Minutes of the day at which the clock is read.
ClockTimes == {OpenedAt, 10 * 60 + 30, 11 * 60 + 30}

\* getReportDateRange for reportPeriod 'week': Monday 00:00:00.000 to
\* Sunday 23:59:59.999 of the week reportOffset weeks from now, as Dates.
getReportDateRange ==
  LET dayOfWeek == getDay(today)
      diff == IF dayOfWeek = 0 THEN -6 ELSE 1 - dayOfWeek
      startDay == today + diff + reportOffset * 7
  IN [startDate |-> <<startDay, 0>>, endDate |-> <<startDay + 6, MinutesPerDay - 1>>]

\* dayIndexMap of renderReport: Sunday 0, Monday 1, .. Saturday 6.
dayIndexMap(day) == (IndexOfDay(day) + 1) % 7

\* isClassCompleted of renderReport; the clock is read at whole minutes.
isClassCompleted(cls) ==
  IF cls.completedDate THEN TRUE
  ELSE IF dayIndexMap(cls.day) < getDay(today) THEN TRUE
  ELSE IF dayIndexMap(cls.day) = getDay(today) THEN nowMin > ParseMinutes(cls.end)
  ELSE FALSE

\* navigateReport(direction), reportPeriod being 'week'.
NavigateReport(direction) ==
  /\ reportOffset + direction \in (0 - MaxReportOffset)..MaxReportOffset
  /\ reportOffset' = reportOffset + direction
  /\ UNCHANGED <<cloudVars, storeVars, ledgerVars, pageVars, clockVars, probeVars, dragVars, formVars,
                 currentWeekOffset>>

\* Time passes within the day.
Tick ==
  /\ \E t \in ClockTimes : t > nowMin /\ nowMin' = t
  /\ UNCHANGED <<cloudVars, storeVars, ledgerVars, pageVars, today, tzOffset, reportOffset, probeVars, dragVars,
                 formVars, currentWeekOffset>>

\* Midnight passes; the page stays open.
NextDay ==
  /\ today < Today + MaxDaysOpen
  /\ today' = today + 1
  /\ nowMin' = OpenedAt
  /\ UNCHANGED <<cloudVars, storeVars, ledgerVars, pageVars, tzOffset, reportOffset, probeVars, dragVars,
                 formVars, currentWeekOffset>>

\* The timetables the report is opened on: one session, saved through the
\* form for some weekday of last week, this week or next week (its date is
\* the date of that weekday), confirmed or cancelled since.
ReportSessions ==
  {[NewSession(s, DAYS[k + 1], <<7 * w + k>>, p[1], p[2]) EXCEPT !.cancelled = c,
                                                              !.cancelledAt = c] :
     s \in StudentInputs, k \in 0..6, w \in (0 - MaxReportOffset)..MaxReportOffset,
     p \in {q \in TimePairs : StrLT(q[1], q[2])}, c \in BOOLEAN}

\* A session whose day was changed in the edit modal and saved with Check
\* with Student (the merge keeps the date it had), confirmed since.
MovedSessions ==
  {[c EXCEPT !.day = d] :
     c \in {r \in ReportSessions : ~r.cancelled}, d \in DayInputs} \ ReportSessions

\* Two confirmed sessions of one hour each.
ReportPairs ==
  LET Confirmed == {c \in ReportSessions : ~c.cancelled /\ c.start = HHMM(9, 0)}
  IN {<<a, b>> : a \in Confirmed, b \in Confirmed}

InitReport ==
  /\ PageLoaded
  /\ \/ \E c \in ReportSessions \cup MovedSessions : classes = <<c>>
     \/ classes \in ReportPairs
  /\ persisted = classes
  /\ probeArgs = <<>>
  /\ probeResult = <<>>

NextReport ==
  \/ \E direction \in {-1, 1} : NavigateReport(direction)
  \/ Tick
  \/ NextDay

SpecReport == InitReport /\ [][NextReport]_vars

\* -------------------------------------------------------------- billing
\* The cap of the two rate inputs.
MaxRate == 100000

\* Math.round(num / den) for den > 0: the nearest integer, a half rounded
\* up. (The floating-point product (minutes / 60) * rate is the exact
\* quotient for the rates and durations used here.)
MathRound(num, den) == (2 * num + den) \div (2 * den)

RECURSIVE SumFn(_)
\* The sum of the values of a finite function (a += over a forEach).
SumFn(f) ==
  IF DOMAIN f = {} THEN 0
  ELSE LET k == CHOOSE j \in DOMAIN f : TRUE
       IN f[k] + SumFn([j \in DOMAIN f \ {k} |-> f[j]])

\* getClassPaymentId: `${student}_${date}_${start}_${end}`; the fields hold
\* no underscore, so the string is the tuple of its parts.
getClassPaymentId(cls) == <<cls.student, cls.date, cls.start, cls.end>>

\* paymentStatus[key] taken as a condition: an absent entry is falsy.
IsPaid(ps, key) == key \in DOMAIN ps /\ ps[key]

\* studentRates[student] || defaultRate
rateOf(student) ==
  IF student \in DOMAIN studentRates /\ studentRates[student] # 0
  THEN studentRates[student]
  ELSE defaultRate

\* classesInRange of renderReport.
ClassesInRange ==
  getClassesInRange(classes, getReportDateRange.startDate, getReportDateRange.endDate)

\* The branch the period summary takes for a session.
summaryBucket(c) ==
  IF ~c.cancelled /\ ~c.pendingConfirmation
  THEN IF isClassCompleted(c) THEN "completed" ELSE "upcoming"
  ELSE "none"

\* The period summary over the sessions cr: completedCount, upcomingCount,
\* completedMinutes.
reportSummary(cr) ==
  LET Minutes(c) == getMinutesBetween(c.start, c.end)
  IN [completedCount |-> Len(SelectSeq(cr, LAMBDA c : summaryBucket(c) = "completed")),
      upcomingCount |-> Len(SelectSeq(cr, LAMBDA c : summaryBucket(c) = "upcoming")),
      completedMinutes |->
        SumFn([i \in 1..Len(cr) |->
                 IF summaryBucket(cr[i]) = "completed" THEN Minutes(cr[i]) ELSE 0])]

statsBucket_pendingCounts(c) ==
  IF c.cancelled THEN "cancelled"
  ELSE IF isClassCompleted(c) THEN "completed"
  ELSE "upcoming"

\* The branch the per-student statistics take for a session.
statsBucket(c) ==
  IF c.cancelled THEN "cancelled"
  ELSE IF c.pendingConfirmation THEN "pending"
  ELSE IF isClassCompleted(c) THEN "completed"
  ELSE "upcoming"

\* studentStats[student] over the sessions cr with the ledger ps.
studentStats(cr, ps, student) ==
  LET mine == SelectSeq(cr, LAMBDA c : c.student = student)
      done == SelectSeq(mine, LAMBDA c : statsBucket(c) = "completed")
      paid == SelectSeq(done, LAMBDA c : IsPaid(ps, getClassPaymentId(c)))
      Minutes(q) == SumFn([i \in 1..Len(q) |-> getMinutesBetween(q[i].start, q[i].end)])
  IN [total |-> Len(mine),
      cancelled |-> Len(SelectSeq(mine, LAMBDA c : statsBucket(c) = "cancelled")),
      pending |-> Len(SelectSeq(mine, LAMBDA c : statsBucket(c) = "pending")),
      completed |-> Len(done),
      upcoming |-> Len(SelectSeq(mine, LAMBDA c : statsBucket(c) = "upcoming")),
      completedMinutes |-> Minutes(done),
      paidClasses |-> Len(paid),
      paidMinutes |-> Minutes(paid),
      completedClassIds |-> [i \in 1..Len(done) |-> getClassPaymentId(done[i])]]

\* Object.keys(studentStats)
ReportStudents(cr) == {cr[i].student : i \in 1..Len(cr)}

\* A row of the student table: the amounts and the Mark Paid button.
studentRow(cr, ps, student) ==
  LET stats == studentStats(cr, ps, student)
      rate == rateOf(student)
      amount == MathRound(stats.completedMinutes * rate, 60)
      paidAmountForStudent == MathRound(stats.paidMinutes * rate, 60)
  IN [rate |-> rate,
      amount |-> amount,
      paidAmountForStudent |-> paidAmountForStudent,
      unpaidAmount |-> amount - paidAmountForStudent,
      markPaidBtn |-> stats.completed > 0 /\ stats.paidClasses # stats.completed]

\* The footer: totalAmount and paidAmount.
reportTotals(cr, ps) ==
  [totalAmount |-> SumFn([st \in ReportStudents(cr) |-> studentRow(cr, ps, st).amount]),
   paidAmount |->
     SumFn([st \in ReportStudents(cr) |-> studentRow(cr, ps, st).paidAmountForStudent])]

\* The amount renderEarningsChart and the Mark Paid dialog show for one
\* session.
classAmount(c) == MathRound(getMinutesBetween(c.start, c.end) * rateOf(c.student), 60)

\* periodKey of renderReport.
periodKey ==
  <<ToISODate(getReportDateRange.startDate[1], getReportDateRange.startDate[2]),
    ToISODate(getReportDateRange.endDate[1], getReportDateRange.endDate[2])>>

chartBucket_countsCancelled(c, ps) ==
  IF c.pendingConfirmation THEN "upcoming"
  ELSE IF isClassCompleted(c)
       THEN IF IsPaid(ps, <<c.student, periodKey>>) THEN "paid" ELSE "completed"
  ELSE "upcoming"

\* The branch renderEarningsChart takes for a session.
chartBucket(c, ps) ==
  IF c.cancelled THEN "skip"
  ELSE IF c.pendingConfirmation THEN "upcoming"
  ELSE IF isClassCompleted(c)
       THEN IF IsPaid(ps, <<c.student, periodKey>>) THEN "paid" ELSE "completed"
  ELSE "upcoming"

\* dayEarnings[day] over the sessions cr.
dayEarnings(cr, ps, day) ==
  LET Part(b) == SumFn([i \in 1..Len(cr) |->
                          IF cr[i].day = day /\ chartBucket(cr[i], ps) = b
                          THEN classAmount(cr[i]) ELSE 0])
  IN [paid |-> Part("paid"), completed |-> Part("completed"), upcoming |-> Part("upcoming")]

\* obj[key] = val on a JavaScript object used as a map.
SetKey(map, key, val) ==
  [k \in DOMAIN map \cup {key} |-> IF k = key THEN val ELSE map[k]]

\* What a rate input holds when its change event fires: <<>> for a value
\* parseInt makes NaN of, <<n>> for the integer n.
RateInputs == {<<>>, <<-50>>, <<0>>, <<50>>, <<MaxRate + 50>>}

DefaultRateInputs == {<<0>>, <<InitialDefaultRate>>}

\* The validation both rate inputs share: NaN and negatives become 0, the
\* value is capped at MaxRate.
validatedRate(value) ==
  LET newRate == IF value = <<>> THEN 0 ELSE IF value[1] < 0 THEN 0 ELSE value[1]
  IN IF newRate > MaxRate THEN MaxRate ELSE newRate

\* The change handler of a student's rate input in the report table.
SetStudentRate(student, value) ==
  /\ student \in ReportStudents(ClassesInRange)
  /\ studentRates' = SetKey(studentRates, student, validatedRate(value))
  /\ storage' = [storage EXCEPT !.studentRates = studentRates']
  /\ UNCHANGED <<storeVars, pageVars, paymentStatus, defaultRate, envVars, dragVars, formVars,
                 currentWeekOffset>>

\* The change handler of the default rate input.
SetDefaultRate(value) ==
  /\ defaultRate' = validatedRate(value)
  /\ storage' = [storage EXCEPT !.defaultRate = <<defaultRate'>>]
  /\ UNCHANGED <<storeVars, pageVars, studentRates, paymentStatus, envVars, dragVars, formVars,
                 currentWeekOffset>>

RECURSIVE savePayments(_, _, _, _)
\* The Save button of the Mark Paid dialog: for each checkbox from the k-th
\* on, paymentStatus[classId] = cb.checked. ids are the class ids of the
\* boxes, checked the positions of the ticked ones.
savePayments(ps, ids, checked, k) ==
  IF k > Len(ids) THEN ps
  ELSE savePayments(SetKey(ps, ids[k], k \in checked), ids, checked, k + 1)

\* Mark Paid on a student's row, the boxes left as `checked`, Save.
SavePayments(student, checked) ==
  /\ student \in ReportStudents(ClassesInRange)
  /\ studentRow(ClassesInRange, paymentStatus, student).markPaidBtn
  /\ LET ids == studentStats(ClassesInRange, paymentStatus, student).completedClassIds
     IN /\ checked \subseteq 1..Len(ids)
        /\ paymentStatus' = savePayments(paymentStatus, ids, checked, 1)
        /\ storage' = [storage EXCEPT !.paymentStatus = paymentStatus']
  /\ UNCHANGED <<storeVars, pageVars, studentRates, defaultRate, envVars, dragVars, formVars,
                 currentWeekOffset>>

\* The timetables the billing is checked on: one or two sessions of this
\* week for two students, on a day that has passed (Monday, Tuesday) or is
\* still to come (Thursday); 45 or 90 minutes saved through the form, or the
\* range with its end before its start that copy-to-days stores;
\* confirmed, cancelled or awaiting confirmation.
BillingStudents == {"Asha", "Ben"}

BillingSessions ==
  LET Base == {NewSession(st, DAYS[k + 1], <<k>>, p[1], p[2]) :
                 st \in BillingStudents, k \in {0, 1, 3},
                 p \in {<<HHMM(9, 0), HHMM(9, 45)>>, <<HHMM(9, 0), HHMM(10, 30)>>,
                        <<HHMM(10, 0), HHMM(9, 0)>>}}
      Long == {c \in Base : c.end = HHMM(10, 30)}
  IN Base
     \cup {[c EXCEPT !.cancelled = TRUE, !.cancelReason = "other", !.cancelledAt = TRUE] :
             c \in Long}
     \cup {[c EXCEPT !.pendingConfirmation = TRUE] : c \in Long}

\* A second session that the gate reports against the first was saved with
\* the override.
BillingStores ==
  {<<a>> : a \in BillingSessions}
  \cup {<<a, IF hasClashIn(<<a>>, b, 0) THEN [b EXCEPT !.allowedClash = TRUE] ELSE b>> :
          a \in BillingSessions, b \in BillingSessions}

InitBilling ==
  /\ PageLoaded
  /\ classes \in BillingStores
  /\ persisted = classes
  /\ probeArgs = <<>>
  /\ probeResult = <<>>

NextBilling ==
  \/ \E st \in BillingStudents, value \in RateInputs : SetStudentRate(st, value)
  \/ \E value \in DefaultRateInputs : SetDefaultRate(value)
  \/ \E st \in BillingStudents, checked \in SUBSET (1..MaxClasses) : SavePayments(st, checked)

SpecBilling == InitBilling /\ [][NextBilling]_vars

\* ------------------------------------------------------ suggested slots
\* const WORKING_HOURS = { start: 8, end: 20 }.
WORKING_HOURS == [start |-> 8, end |-> 20]

addMinutesToTime(time, minutes) ==
  LET totalMinutes == ParseMinutes(time) + minutes
  IN HHMM((totalMinutes \div 60) % 24, totalMinutes % 60)

RECURSIVE SortByStart(_, _)
\* Array.prototype.sort by a.start.localeCompare(b.start) over the indices
\* idx of cs: ascending start, equal starts in their stored order.
SortByStart(cs, idx) ==
  IF idx = <<>> THEN <<>>
  ELSE LET front == SortByStart(cs, SubSeq(idx, 1, Len(idx) - 1))
           last == idx[Len(idx)]
           n == Cardinality({k \in 1..Len(front) :
                               StrLE(cs[front[k]].start, cs[last].start)})
       IN SubSeq(front, 1, n) \o <<last>> \o SubSeq(front, n + 1, Len(front))

RECURSIVE SlotSweep(_, _, _, _, _)
\* The for loop over relevantClasses and the check at the end of the day;
\* todo holds the indices still to visit.
SlotSweep(cs, todo, currentStart, slots, duration) ==
  LET Slot == [start |-> currentStart, end |-> addMinutesToTime(currentStart, duration)]
  IN IF todo = <<>>
     THEN LET dayEnd == HHMM(WORKING_HOURS.end, 0)
          IN IF StrLT(currentStart, dayEnd)
                /\ getMinutesBetween(currentStart, dayEnd) >= duration
             THEN Append(slots, Slot)
             ELSE slots
     ELSE LET cls == cs[Head(todo)]
              pushed == IF StrLT(currentStart, cls.start)
                           /\ getMinutesBetween(currentStart, cls.start) >= duration
                        THEN Append(slots, Slot)
                        ELSE slots
              moved == IF StrLT(currentStart, cls.end) THEN cls.end ELSE currentStart
          IN SlotSweep(cs, Tail(todo), moved, pushed, duration)

\* findAvailableSlots(day) over the store cs with the edited index
\* excludeIndex (0 for null); duration is the module-level selectedDuration
\* at the time of the call.
findAvailableSlotsIn(cs, excludeIndex, day, duration) ==
  LET dayClasses == SortByStart(cs, SelectSeq([i \in 1..Len(cs) |-> i],
                                              LAMBDA i : cs[i].day = day))
      relevantClasses == SelectSeq(dayClasses, LAMBDA i : i # excludeIndex)
      slots == SlotSweep(cs, relevantClasses, HHMM(WORKING_HOURS.start, 0), <<>>, duration)
  IN SubSeq(slots, 1, IF Len(slots) < 4 THEN Len(slots) ELSE 4)

findAvailableSlots(day, duration) ==
  findAvailableSlotsIn(classes, editingIndex, day, duration)

\* The durations of the duration buttons used: the default hour, and two hours.
DurationInputs == {60, 2 * 60}
SlotStarts == {HHMM(8, 0), HHMM(9, 0)}

\* checkFormClash() after the form's day, start and duration are set (the
\* end is addMinutesToTime(start, selectedDuration)): on a clash the warning
\* is shown and showSuggestedSlots(day) renders findAvailableSlots(day);
\* otherwise both are hidden. probeArgs keeps the day and the duration of
\* the call, probeResult the slots rendered.
CheckFormClash(day, start, duration) ==
  /\ ui.modal
  /\ LET testClass == [day |-> day,
                       date |-> DayDate(getWeekStartDate(currentWeekOffset), IndexOfDay(day)),
                       start |-> start, end |-> addMinutesToTime(start, duration)]
         clash == hasClash(testClass, editingIndex)
     IN /\ ui' = [ui EXCEPT !.formClashWarning = clash]
        /\ probeArgs' = <<day, duration>>
        /\ probeResult' = IF clash THEN <<findAvailableSlots(day, duration)>> ELSE <<>>
  /\ UNCHANGED <<cloudVars, storeVars, ledgerVars, pageVars, clockVars, reportOffset, dragVars, editingIndex,
                 allowClashOverride, currentWeekOffset>>

\* Two evening lessons saved through the form, which accepts any end after
\* the start: one running past the end of the working hours, one after it.
EveningPairs == {<<HHMM(19, 0), HHMM(21, 0)>>, <<HHMM(22, 0), HHMM(23, 0)>>}

\* The starts the form is probed with: those of the morning lessons, and
\* the last working hour.
FormStarts == SlotStarts \cup {HHMM(19, 0)}

\* The timetables the suggestions are checked on: one or two sessions on
\* Monday or Tuesday of this week or the next, in the first or the second
\* working hour; confirmed or cancelled; a confirmed session whose day was
\* changed through Check with Student and then confirmed (it keeps its
\* date); the range with its end before its start that copy-to-days
\* stores; and the two evening lessons.
SlotSessions ==
  LET Base == {NewSession("Asha", d, <<7 * w + IndexOfDay(d)>>, s, addMinutesToTime(s, 60)) :
                 d \in DayInputs, w \in 0..MaxWeekOffset, s \in SlotStarts}
  IN Base
     \cup {[c EXCEPT !.cancelled = TRUE, !.cancelReason = "other", !.cancelledAt = TRUE] :
             c \in Base}
     \cup {[c EXCEPT !.day = d] : c \in Base, d \in DayInputs}
     \cup {NewSession("Asha", d, <<IndexOfDay(d)>>, HHMM(10, 0), HHMM(9, 0)) : d \in DayInputs}
     \cup {NewSession("Asha", "Monday", <<IndexOfDay("Monday")>>, p[1], p[2]) :
             p \in EveningPairs}

SlotStores ==
  {<<a>> : a \in SlotSessions}
  \cup {<<a, IF hasClashIn(<<a>>, b, 0) THEN [b EXCEPT !.allowedClash = TRUE] ELSE b>> :
          a \in SlotSessions, b \in SlotSessions}

InitSlots ==
  /\ PageLoaded
  /\ classes \in SlotStores
  /\ persisted = classes
  /\ probeArgs = <<>>
  /\ probeResult = <<>>

NextSlots ==
  \/ \E direction \in {-1, 1} : NavigateWeek(direction)
  \/ OpenAddModal
  \/ \E index \in 1..MaxClasses : OpenEditModal(index)
  \/ \E day \in DayInputs, start \in FormStarts, duration \in DurationInputs :
       CheckFormClash(day, start, duration)

SpecSlots == InitSlots /\ [][NextSlots]_vars

\* ------------------------------------------------- load, backup, import
\* parseInt(localStorage.getItem('defaultRate')) || 500
loadDefaultRate(item) == IF item = <<>> \/ item[1] = 0 THEN InitialDefaultRate ELSE item[1]

\* backup.field || current, for a field that holds a map: an object is
\* truthy, the empty one too.
OrMap(value, current) == value

\* backup.defaultRate || current
OrRate(value, current) == IF value = 0 THEN current ELSE value

\* The module state a load or a restore works on, and what it has written.
Loaded(cs, rates, payments, rate, st) ==
  [classes |-> cs, persisted |-> persisted, studentRates |-> rates,
   paymentStatus |-> payments, defaultRate |-> rate, storage |-> st, saved |-> FALSE,
   source |-> "none"]

\* classes, studentRates, paymentStatus and defaultRate of m replaced by the
\* backup's, then saveClasses() and the three setItem calls.
recoverFrom_keepsLedger(m, backup, source) ==
  [m EXCEPT !.classes = backup.classes, !.persisted = saveClasses(backup.classes),
            !.saved = TRUE, !.source = source]

recoverFrom(m, backup, source) ==
  LET rates == OrMap(backup.studentRates, m.studentRates)
      payments == OrMap(backup.paymentStatus, m.paymentStatus)
      rate == OrRate(backup.defaultRate, m.defaultRate)
  IN [m EXCEPT !.classes = backup.classes, !.persisted = saveClasses(backup.classes),
               !.studentRates = rates, !.paymentStatus = payments, !.defaultRate = rate,
               !.storage = [@ EXCEPT !.studentRates = rates, !.paymentStatus = payments,
                                     !.defaultRate = <<rate>>],
               !.saved = TRUE, !.source = source]

\* checkAndRecoverData on the module state m.
checkAndRecoverData(m) ==
  LET autoBackups == m.storage.autoBackups
      cleanupBackups == m.storage.cleanupBackups
  IN IF Len(m.classes) > 0 THEN m
     ELSE IF Len(autoBackups) > 0 /\ Len(autoBackups[1].classes) > 0
     THEN recoverFrom(m, autoBackups[1], "auto")
     ELSE IF Len(cleanupBackups) > 0 /\ Len(cleanupBackups[1].classes) > 0
     THEN recoverFrom(m, cleanupBackups[1], "cleanup")
     ELSE m

\* migrateClassesToDateFormat on the module state m.
migrate(m) ==
  IF \E i \in 1..Len(m.classes) : ~HasDate(m.classes[i])
  THEN LET cs == migrateClassesToDateFormat(m.classes)
       IN [m EXCEPT !.classes = cs, !.persisted = saveClasses(cs), !.saved = TRUE]
  ELSE m

\* array.unshift(x); array.slice(0, n)
UnshiftKeep(list, x, n) ==
  LET all == <<x>> \o list IN SubSeq(all, 1, IF Len(all) < n THEN Len(all) ELSE n)

\* threeMonthsAgo.toISOString().split('T')[0] for a quarter of 13 weeks.
cutoffDate == ToISODate(today - 13 * 7, nowMin)

\* cleanupOldClasses on the module state m: the sessions dated before the
\* cutoff are removed, after a cleanup backup of the whole state (at most 6
\* are kept).
cleanupOldClasses(m) ==
  LET IsOld(c) == HasDate(c) /\ c.date[1] < cutoffDate[1]
      IsKept(c) == ~IsOld(c)
      kept == SelectSeq(m.classes, IsKept)
      cleanupBackup == Backup(m.classes, m.studentRates, m.paymentStatus, m.defaultRate)
  IN IF \A i \in 1..Len(m.classes) : ~IsOld(m.classes[i]) THEN m
     ELSE [m EXCEPT !.classes = kept, !.persisted = saveClasses(kept), !.saved = TRUE,
                    !.storage.cleanupBackups = UnshiftKeep(@, cleanupBackup, 6)]

\* checkAndCreateBackup and createAutoBackup on the module state m: a week
\* after the last one, an auto backup is stored (at most 4 are kept).
checkAndCreateBackup(m) ==
  LET daysSinceBackup == today - m.storage.lastBackupDate
      backupData == Backup(m.classes, m.studentRates, m.paymentStatus, m.defaultRate)
  IN IF daysSinceBackup >= 7
     THEN [m EXCEPT !.storage.autoBackups = UnshiftKeep(@, backupData, 4),
                    !.storage.lastBackupDate = today]
     ELSE m

\* The module state as the script builds it from localStorage.
FromStorage ==
  Loaded(persisted, storage.studentRates, storage.paymentStatus,
         loadDefaultRate(storage.defaultRate), storage)

\* The module state m becomes the page's.
ApplyModuleState(m) ==
  /\ classes' = m.classes
  /\ persisted' = m.persisted
  /\ studentRates' = m.studentRates
  /\ paymentStatus' = m.paymentStatus
  /\ defaultRate' = m.defaultRate
  /\ storage' = m.storage

\* The module state of the running page.
ModuleState == Loaded(classes, studentRates, paymentStatus, defaultRate, storage)

\* A JSON null among the entries of an imported list, written as the record
\* that holds nothing. Reading a property of it throws a TypeError, which
\* the operators that walk an imported list model by asking IsNull first.
NullEntry == NewSession("", "", NoDate, NoTime, NoTime)

IsNull(c) == c = NullEntry

\* The position of the first null of the list, 0 without one.
FirstNull(cs) ==
  IF \E i \in 1..Len(cs) : IsNull(cs[i])
  THEN CHOOSE i \in 1..Len(cs) : IsNull(cs[i]) /\ \A j \in 1..(i - 1) : ~IsNull(cs[j])
  ELSE 0

\* migrateClassesToDateFormat on a replaced collection: the forEach throws at
\* the first null, after it has dated the entries before it; saveClasses()
\* is only reached when it has not thrown.
migrateReplaced(m) ==
  LET k == FirstNull(m.classes)
      before == migrateClassesToDateFormat(SubSeq(m.classes, 1, k - 1))
  IN IF k = 0 THEN [migrate(m) EXCEPT !.source = "restored"]
     ELSE [m EXCEPT !.classes = before \o SubSeq(m.classes, k, Len(m.classes)),
                    !.source = "error"]

\* The four assignments and the four writes that importData and
\* restoreAutoBackup share; a missing or zero default rate becomes 500.
replaceAll(m, backup) ==
  LET rate == OrRate(backup.defaultRate, InitialDefaultRate)
  IN [m EXCEPT !.classes = backup.classes, !.persisted = saveClasses(backup.classes),
               !.studentRates = backup.studentRates,
               !.paymentStatus = backup.paymentStatus, !.defaultRate = rate,
               !.storage = [@ EXCEPT !.studentRates = backup.studentRates,
                                     !.paymentStatus = backup.paymentStatus,
                                     !.defaultRate = <<rate>>],
               !.saved = TRUE]

\* The onload callback of importData for the text of `file`: parses says
\* whether JSON.parse succeeds, data whether importedData.data is there,
\* classes holds data.classes (<<>> when it is missing); confirmed is the
\* answer to confirm(). source tells the toast: "error", "restored", or
\* "none" when the dialog was declined.
importData(file, confirmed) ==
  IF ~file.parses \/ ~file.data \/ file.classes = <<>>
  THEN [ModuleState EXCEPT !.source = "error"]
  ELSE IF ~confirmed THEN ModuleState
  ELSE migrateReplaced(replaceAll(ModuleState,
         Backup(file.classes[1], file.studentRates, file.paymentStatus, file.defaultRate)))

\* restoreAutoBackup(index) for the 1-based position index in autoBackups.
restoreAutoBackup(index, confirmed) ==
  LET backups == storage.autoBackups
  IN IF index < 1 \/ index > Len(backups) THEN [ModuleState EXCEPT !.source = "error"]
     ELSE IF ~confirmed THEN ModuleState
     ELSE migrateReplaced(replaceAll(ModuleState, backups[index]))

\* The outcome m of a function of the backup dialog applied to the page;
\* the dialog writes neither the form nor the drag state. probeArgs names
\* the function, probeResult keeps its toast.
ApplyRestore(m, function) ==
  /\ ApplyModuleState(m)
  /\ selectedClasses' = IF m.saved THEN {} ELSE selectedClasses
  /\ probeArgs' = <<function>>
  /\ probeResult' = <<m.source>>
  /\ UNCHANGED <<cloudVars, pageVars, clockVars, reportOffset, dragVars, formVars, currentWeekOffset>>

\* The backup dialog is reached from the page, with no modal open.
ImportData(file, confirmed) ==
  /\ ~ui.modal /\ draggedClassIndex = 0
  /\ ApplyRestore(importData(file, confirmed), "importData")

RestoreAutoBackup(index, confirmed) ==
  /\ ~ui.modal /\ draggedClassIndex = 0
  /\ ApplyRestore(restoreAutoBackup(index, confirmed), "restoreAutoBackup")

\* The page is loaded: the script reads localStorage and init() runs
\* checkAndRecoverData, migrateClassesToDateFormat, cleanupOldClasses and
\* checkAndCreateBackup. probeArgs names the function, probeResult keeps
\* the backup the recovery has logged ("none" without one).
LoadPage ==
  /\ LET recovered == checkAndRecoverData(FromStorage)
         m == checkAndCreateBackup(cleanupOldClasses(migrate(recovered)))
     IN /\ ApplyModuleState(m)
        /\ probeArgs' = <<"init">>
        /\ probeResult' = <<recovered.source>>
  /\ selectedClasses' = {}
  /\ isSelectMode' = FALSE
  /\ editingIndex' = 0
  /\ currentWeekOffset' = 0
  /\ allowClashOverride' = FALSE
  /\ draggedClassIndex' = 0
  /\ isCopyDrag' = FALSE
  /\ ui' = HiddenUI
  /\ reportOffset' = 0
  /\ UNCHANGED <<cloudVars, notificationsEnabled, notifiedClasses, reminders, clockVars>>

\* ---------------------------------------------------------- select mode
EnterSelectMode ==
  /\ ~ui.modal /\ draggedClassIndex = 0
  /\ ~isSelectMode
  /\ isSelectMode' = TRUE
  /\ selectedClasses' = {}
  /\ UNCHANGED <<classes, persisted, ledgerVars, notificationsEnabled, notifiedClasses,
                 reminders, envVars, dragVars, formVars, currentWeekOffset>>

ExitSelectMode ==
  /\ ~ui.modal /\ isSelectMode
  /\ isSelectMode' = FALSE
  /\ selectedClasses' = {}
  /\ UNCHANGED <<classes, persisted, ledgerVars, notificationsEnabled, notifiedClasses,
                 reminders, envVars, dragVars, formVars, currentWeekOffset>>

\* A click on the card, or on the checkbox, of the rendered session `index`.
ToggleClassSelection(index) ==
  /\ ~ui.modal /\ isSelectMode
  /\ index \in 1..Len(classes) /\ Rendered(index)
  /\ selectedClasses' = IF index \in selectedClasses THEN selectedClasses \ {index}
                        ELSE selectedClasses \cup {index}
  /\ UNCHANGED <<classes, persisted, ledgerVars, pageVars, envVars, dragVars, formVars,
                 currentWeekOffset>>

SelectAllClasses ==
  /\ ~ui.modal /\ isSelectMode
  /\ selectedClasses' = selectedClasses \cup (1..Len(classes))
  /\ UNCHANGED <<classes, persisted, ledgerVars, pageVars, envVars, dragVars, formVars,
                 currentWeekOffset>>

RECURSIVE SpliceEach(_, _)
\* indicesToDelete.forEach(index => classes.splice(index, 1)); splice past
\* the end removes nothing.
SpliceEach(cs, indices) ==
  IF indices = <<>> THEN cs
  ELSE SpliceEach(IF Head(indices) \in 1..Len(cs) THEN RemoveAt(cs, Head(indices)) ELSE cs,
                  Tail(indices))

RECURSIVE Descending(_)
\* Array.from(set).sort((a, b) => b - a)
Descending(S) ==
  IF S = {} THEN <<>>
  ELSE LET max == CHOOSE x \in S : \A y \in S : y <= x
       IN <<max>> \o Descending(S \ {max})

\* deleteSelectedClasses; confirmed is the answer to confirm().
DeleteSelectedClasses(confirmed) ==
  /\ ~ui.modal /\ isSelectMode
  /\ IF selectedClasses = {} \/ ~confirmed
     THEN UNCHANGED <<storeVars, isSelectMode>>
     ELSE /\ classes' = SpliceEach(classes, Descending(selectedClasses))
          /\ persisted' = saveClasses(classes')
          /\ selectedClasses' = {}
          /\ isSelectMode' = FALSE
  /\ UNCHANGED <<ledgerVars, notificationsEnabled, notifiedClasses, reminders, envVars,
                 dragVars, formVars, currentWeekOffset>>

\* --------------------------------------------- the page over its backups
\* The files offered to the import: one that is not JSON, one without data,
\* one without data.classes, and exports whose data.classes is the empty
\* list, a dated session, a session of an export that had no dates yet, a
\* null, or that session followed by a null; with or without a rate table
\* and a default rate.
ImportLists ==
  LET dated == NewSession("Asha", "Monday", <<IndexOfDay("Monday")>>, HHMM(9, 0), HHMM(10, 0))
      undated == NewSession("Asha", "Tuesday", NoDate, HHMM(9, 0), HHMM(10, 0))
  IN {<<>>, <<dated>>, <<undated>>, <<NullEntry>>, <<undated, NullEntry>>}

ImportFiles ==
  LET File(parses, data, cs, rates, rate) ==
        [parses |-> parses, data |-> data, classes |-> cs, studentRates |-> rates,
         paymentStatus |-> <<>>, defaultRate |-> rate]
  IN {File(FALSE, FALSE, <<>>, <<>>, 0), File(TRUE, FALSE, <<>>, <<>>, 0),
      File(TRUE, TRUE, <<>>, <<>>, 0)}
     \cup {File(TRUE, TRUE, <<cs>>, <<>>, 0) : cs \in ImportLists}
     \cup {File(TRUE, TRUE, <<cs>>, SetKey(<<>>, "Asha", 2 * InitialDefaultRate),
                2 * InitialDefaultRate) : cs \in ImportLists}

\* The timetables the page is loaded with: none, one or two lessons of this
\* week, a lesson stored without a date, and a lesson that is a day past the
\* cleanup's quarter.
BackupSessions ==
  {NewSession("Asha", d, <<IndexOfDay(d)>>, HHMM(9, 0), HHMM(10, 0)) : d \in DayInputs}
  \cup {NewSession("Asha", "Monday", NoDate, HHMM(10, 0), HHMM(11, 0)),
        NewSession("Asha", "Monday", <<IndexOfDay("Monday") - 14 * 7>>, HHMM(9, 0), HHMM(10, 0))}

BackupStores ==
  {<<>>} \cup {<<a>> : a \in BackupSessions}
  \cup {p \in BackupSessions \X BackupSessions : p[1] # p[2]}

\* The page was loaded a week ago or today, after the first visit.
InitBackup ==
  /\ ScriptLoaded
  /\ classes \in BackupStores
  /\ persisted = classes
  /\ storage \in {[FirstVisitStorage EXCEPT !.lastBackupDate = d] : d \in {Today - 7, Today}}
  /\ probeArgs = <<>>
  /\ probeResult = <<>>

NextBackup ==
  \/ LoadPage
  \/ \E file \in ImportFiles, confirmed \in BOOLEAN : ImportData(file, confirmed)
  \/ \E index \in 0..2, confirmed \in BOOLEAN : RestoreAutoBackup(index, confirmed)
  \/ \E value \in DefaultRateInputs : SetDefaultRate(value)

SpecBackup == InitBackup /\ [][NextBackup]_vars

\* ------------------------------------------- the page and its indices
\* The timetables the page is loaded with: none, one or two lessons of
\* this week.
IndexSessions ==
  {NewSession("Asha", d, <<IndexOfDay(d)>>, HHMM(9, 0), HHMM(10, 0)) : d \in DayInputs}

IndexStores ==
  {<<>>} \cup {<<a>> : a \in IndexSessions}
  \cup {p \in IndexSessions \X IndexSessions : p[1] # p[2]}

\* The one auto backup holds no lesson or one.
InitIndex ==
  /\ ScriptLoaded
  /\ classes \in IndexStores
  /\ persisted = classes
  /\ \E cs \in {st \in IndexStores : Len(st) < 2} :
       storage = [FirstVisitStorage EXCEPT
                    !.autoBackups = <<Backup(cs, <<>>, <<>>, InitialDefaultRate)>>]
  /\ probeArgs = <<>>
  /\ probeResult = <<>>

NextIndex ==
  \/ OpenAddModal
  \/ HandleFormSubmit(SomeForm[1], SomeForm[2], SomeForm[3], SomeForm[4])
  \/ \E index \in 0..(MaxClasses + 1) : OpenEditModal(index)
  \/ CloseModal
  \/ HandleDelete
  \/ \E index \in 0..(MaxClasses + 1), targetDay \in DayInputs :
       ShowCopyClassDialog(index, targetDay)
  \/ \E index \in 0..(MaxClasses + 1) : HandleDragStart(index)
  \/ KeyDown
  \/ KeyUp
  \/ HandleDragEnd
  \/ \E targetDay \in DayInputs : HandleDrop(targetDay)
  \/ EnterSelectMode
  \/ ExitSelectMode
  \/ \E index \in 1..MaxClasses : ToggleClassSelection(index)
  \/ SelectAllClasses
  \/ \E confirmed \in BOOLEAN : DeleteSelectedClasses(confirmed)
  \/ \E index \in 0..2, confirmed \in BOOLEAN : RestoreAutoBackup(index, confirmed)

SpecIndex == InitIndex /\ [][NextIndex]_vars

\* ------------------------------------------------------ class reminders
\* The page is followed from 23:39 until LastPoll minutes past midnight.
LastPoll == 22
MaxPollDays == 8
ReminderOpenedAt == 23 * 60 + 39

\* DAYS[now.getDay() === 0 ? 6 : now.getDay() - 1]
currentDayOf(d) == DAYS[(IF getDay(d) = 0 THEN 6 ELSE getDay(d) - 1) + 1]

\* `${currentDay}-${c.start}-${c.student}`
classIdOf(currentDay, c) == <<currentDay, c.start, c.student>>

RECURSIVE RemindLoop(_, _, _, _, _)
\* todayClasses.forEach of checkUpcomingClasses over cs from index i on:
\* the notified set and the reminders sent, as indices of the collection.
RemindLoop(cs, i, currentDay, currentMinutes, acc) ==
  IF i > Len(cs) THEN acc
  ELSE LET c == cs[i]
           minutesUntilClass == ParseMinutes(c.start) - currentMinutes
           classId == classIdOf(currentDay, c)
           due == /\ c.day = currentDay /\ ~c.cancelled /\ ~c.pendingConfirmation
                  /\ minutesUntilClass >= 14 /\ minutesUntilClass <= 16
                  /\ classId \notin acc.notified
       IN RemindLoop(cs, i + 1, currentDay, currentMinutes,
                     IF due THEN [notified |-> acc.notified \cup {classId},
                                  sent |-> Append(acc.sent, i)]
                     ELSE acc)

\* checkUpcomingClasses on day d at minute min of the local clock.
checkUpcomingClasses(d, min) ==
  IF ~notificationsEnabled THEN [notified |-> notifiedClasses, sent |-> <<>>]
  ELSE LET looped == RemindLoop(classes, 1, currentDayOf(d), min,
                                [notified |-> notifiedClasses, sent |-> <<>>])
       IN IF min = 0 THEN [looped EXCEPT !.notified = {}] ELSE looped

RECURSIVE Stamped(_, _)
\* The reminders of one poll, each with the day it was sent on.
Stamped(sent, d) ==
  IF sent = <<>> THEN <<>> ELSE <<(<<d, Head(sent)>>)>> \o Stamped(Tail(sent), d)

\* setInterval(checkUpcomingClasses, 60000): a minute has passed since the
\* last check and checkUpcomingClasses runs.
MinutePolled ==
  /\ LET min == (nowMin + 1) % MinutesPerDay
         d == IF min = 0 THEN today + 1 ELSE today
         r == checkUpcomingClasses(d, min)
     IN /\ nowMin' = min
        /\ today' = d
        /\ notifiedClasses' = r.notified
        /\ reminders' = reminders \o Stamped(r.sent, d)
  /\ UNCHANGED <<cloudVars, storeVars, ledgerVars, isSelectMode, notificationsEnabled, tzOffset,
                 reportOffset, probeVars, dragVars, formVars, currentWeekOffset>>

\* The poll of a page that is followed across one midnight.
CheckUpcomingClasses ==
  /\ today = Today \/ nowMin < LastPoll
  /\ MinutePolled

\* The poll of a page that stays open for MaxPollDays days.
StartClassReminderCheck ==
  /\ today < Today + MaxPollDays \/ (today = Today + MaxPollDays /\ nowMin < LastPoll)
  /\ MinutePolled

\* requestNotificationPermission, the permission granted.
RequestNotificationPermission ==
  /\ ~notificationsEnabled
  /\ notificationsEnabled' = TRUE
  /\ UNCHANGED <<storeVars, ledgerVars, isSelectMode, notifiedClasses, reminders, envVars,
                 dragVars, formVars, currentWeekOffset>>

\* Lessons late on the day the page is opened and early on the next, a
\* lesson of the next day that awaits confirmation, a cancelled one, and a
\* lesson of the same weekday a week later.
ReminderSessions ==
  {NewSession("Asha", "Wednesday", <<Today>>, HHMM(23, 56), HHMM(23, 59))}
  \cup {NewSession("Asha", "Thursday", <<Today + 1>>, HHMM(0, m), HHMM(1, 0)) :
          m \in {10, 14, 15, 16, 30}}
  \cup {[NewSession("Ben", "Thursday", <<Today + 1>>, HHMM(0, 20), HHMM(1, 0))
           EXCEPT !.pendingConfirmation = TRUE],
        [NewSession("Ben", "Thursday", <<Today + 1>>, HHMM(0, 25), HHMM(1, 0))
           EXCEPT !.cancelled = TRUE, !.cancelReason = "other", !.cancelledAt = TRUE],
        NewSession("Ben", "Thursday", <<Today + 1 + 7>>, HHMM(0, 30), HHMM(1, 0))}

ReminderStores ==
  {<<>>} \cup {<<a>> : a \in ReminderSessions}
  \cup {p \in ReminderSessions \X ReminderSessions : p[1] # p[2]}

\* The page is open at 23:39; no lesson is due within 16 minutes.
ReminderPageOpen ==
  /\ editingIndex = 0
  /\ currentWeekOffset = 0
  /\ allowClashOverride = FALSE
  /\ draggedClassIndex = 0
  /\ isCopyDrag = FALSE
  /\ ui = HiddenUI
  /\ studentRates = <<>>
  /\ paymentStatus = <<>>
  /\ defaultRate = InitialDefaultRate
  /\ storage = FirstVisitStorage
  /\ selectedClasses = {}
  /\ isSelectMode = FALSE
  /\ notifiedClasses = {}
  /\ reminders = <<>>
  /\ reportOffset = 0
  /\ today = Today
  /\ nowMin = ReminderOpenedAt
  /\ tzOffset = KolkataOffset
  /\ probeArgs = <<>>
  /\ probeResult = <<>>

ReminderPageLoaded == ReminderPageOpen /\ CloudIdle

InitReminder ==
  /\ ReminderPageLoaded
  /\ notificationsEnabled \in BOOLEAN
  /\ classes \in ReminderStores
  /\ persisted = classes

NextReminder ==
  \/ CheckUpcomingClasses
  \/ RequestNotificationPermission

SpecReminder == InitReminder /\ [][NextReminder]_vars

\* A lesson of this week and the lesson of the same student, weekday and
\* time a week later: late on the day the page is opened, or early on the
\* next day.
WeeklySlots ==
  {<<NewSession("Asha", DAYS[(d % 7) + 1], <<d>>, t, HHMM(23, 59)),
     NewSession("Asha", DAYS[(d % 7) + 1], <<d + 7>>, t, HHMM(23, 59))>> :
     d \in {Today}, t \in {HHMM(23, 56)}}
  \cup {<<NewSession("Asha", DAYS[(d % 7) + 1], <<d>>, t, HHMM(1, 0)),
          NewSession("Asha", DAYS[(d % 7) + 1], <<d + 7>>, t, HHMM(1, 0))>> :
          d \in {Today + 1}, t \in {HHMM(0, 16), HHMM(0, 30)}}

\* A lesson of the next day whose day field was changed to Friday through
\* check-with-student (the date stays) and which was confirmed afterwards.
MovedSlots ==
  {<<NewSession("Asha", "Friday", <<Today + 1>>, HHMM(0, 30), HHMM(1, 0))>>}

\* The page is open at 23:39 with the notifications enabled, and stays
\* open.
InitReminderWeek ==
  /\ ReminderPageLoaded
  /\ notificationsEnabled = TRUE
  /\ classes \in WeeklySlots \cup MovedSlots
  /\ persisted = classes

NextReminderWeek == StartClassReminderCheck

\* setInterval keeps firing while the page is open.
SpecReminderWeek ==
  InitReminderWeek /\ [][NextReminderWeek]_vars /\ WF_vars(StartClassReminderCheck)

\* ------------------------------------- the scheduled cloud function
\* The function is followed from 23:39 IST until LastCloudMinute minutes
\* past midnight; today and nowMin are the IST clock (istNow).
LastCloudMinute == 18

\* `${cls.student}_${cls.date}_${cls.start}`
notificationId(cls) == <<cls.student, cls.date, cls.start>>

\* The element of the loop passes the date test and is 14 to 16 minutes
\* away: the run goes on to read its marker.
minutesUntilDue(cls, todayStr, currentMinutes) ==
  /\ ~(cls.date # todayStr \/ cls.cancelled)
  /\ LET minutesUntil == ParseMinutes(cls.start) - currentMinutes
     IN minutesUntil >= 14 /\ minutesUntil <= 16

RECURSIVE NextMarkerRead(_, _, _, _)
\* for (const cls of classes) from element i on: the first element whose
\* marker is read, 0 when the loop ends without one.
NextMarkerRead(cs, i, todayStr, currentMinutes) ==
  IF i > Len(cs) THEN 0
  ELSE IF minutesUntilDue(cs[i], todayStr, currentMinutes) THEN i
  ELSE NextMarkerRead(cs, i + 1, todayStr, currentMinutes)

\* The run inv goes on with the loop from element i: it stops at the next
\* await, or returns null.
Continue(inv, i) ==
  LET j == NextMarkerRead(tutorClasses, i, <<inv.day>>, inv.min)
  IN IF j = 0 THEN [inv EXCEPT !.pc = "idle", !.idx = 0]
     ELSE [inv EXCEPT !.pc = "get", !.idx = j]

\* The scheduler starts run k, once in a minute: the run reads the tutor
\* document and the clock and loops to the first marker it has to read.
CheckClassReminders(k) ==
  /\ invocations[k].pc = "idle"
  /\ \A j \in 1..MaxInvocations :
       <<invocations[j].day, invocations[j].min>> # <<today, nowMin>>
  /\ invocations' =
       [invocations EXCEPT ![k] = Continue([pc |-> "idle", idx |-> 0, day |-> today,
                                            min |-> nowMin], 1)]
  /\ UNCHANGED <<tutorClasses, notified, delivered>>
  /\ UNCHANGED <<storeVars, ledgerVars, pageVars, clockVars, reportOffset, probeVars, dragVars,
                 formVars, currentWeekOffset>>

\* await db.collection('notified').doc(notificationId).get() returns.
NotifiedGet(k) ==
  /\ invocations[k].pc = "get"
  /\ LET inv == invocations[k]
         id == notificationId(tutorClasses[inv.idx])
     IN invocations' =
          [invocations EXCEPT ![k] = IF id \in notified THEN Continue(inv, inv.idx + 1)
                                     ELSE [inv EXCEPT !.pc = "send"]]
  /\ UNCHANGED <<tutorClasses, notified, delivered>>
  /\ UNCHANGED <<storeVars, ledgerVars, pageVars, clockVars, reportOffset, probeVars, dragVars,
                 formVars, currentWeekOffset>>

\* await messaging.send(message) resolves: the reminder is delivered.
MessagingSend(k) ==
  /\ invocations[k].pc = "send"
  /\ delivered' = Append(delivered, notificationId(tutorClasses[invocations[k].idx]))
  /\ invocations' = [invocations EXCEPT ![k].pc = "set"]
  /\ UNCHANGED <<tutorClasses, notified>>
  /\ UNCHANGED <<storeVars, ledgerVars, pageVars, clockVars, reportOffset, probeVars, dragVars,
                 formVars, currentWeekOffset>>

\* await messaging.send(message) rejects: catch (sendError) logs it.
MessagingSendRejected(k) ==
  /\ invocations[k].pc = "send"
  /\ invocations' = [invocations EXCEPT ![k] = Continue(@, @.idx + 1)]
  /\ UNCHANGED <<tutorClasses, notified, delivered>>
  /\ UNCHANGED <<storeVars, ledgerVars, pageVars, clockVars, reportOffset, probeVars, dragVars,
                 formVars, currentWeekOffset>>

\* await db.collection('notified').doc(notificationId).set(...) resolves.
NotifiedSet(k) ==
  /\ invocations[k].pc = "set"
  /\ notified' = notified \cup {notificationId(tutorClasses[invocations[k].idx])}
  /\ invocations' = [invocations EXCEPT ![k] = Continue(@, @.idx + 1)]
  /\ UNCHANGED <<tutorClasses, delivered>>
  /\ UNCHANGED <<storeVars, ledgerVars, pageVars, clockVars, reportOffset, probeVars, dragVars,
                 formVars, currentWeekOffset>>

\* The write of the marker rejects: catch (sendError) logs it.
NotifiedSetRejected(k) ==
  /\ invocations[k].pc = "set"
  /\ invocations' = [invocations EXCEPT ![k] = Continue(@, @.idx + 1)]
  /\ UNCHANGED <<tutorClasses, notified, delivered>>
  /\ UNCHANGED <<storeVars, ledgerVars, pageVars, clockVars, reportOffset, probeVars, dragVars,
                 formVars, currentWeekOffset>>

\* A minute of the IST clock passes.
MinutePasses ==
  /\ today = Today \/ nowMin < LastCloudMinute
  /\ nowMin' = (nowMin + 1) % MinutesPerDay
  /\ today' = IF nowMin' = 0 THEN today + 1 ELSE today
  /\ UNCHANGED <<cloudVars, storeVars, ledgerVars, pageVars, tzOffset, reportOffset, probeVars,
                 dragVars, formVars, currentWeekOffset>>

\* The lessons of the tutor document: early on the next day, one confirmed,
\* one that awaits confirmation, one cancelled, and one a week later.
CloudSessions ==
  {NewSession("Asha", "Thursday", <<Today + 1>>, HHMM(0, 15), HHMM(1, 0)),
   [NewSession("Ben", "Thursday", <<Today + 1>>, HHMM(0, 20), HHMM(1, 0))
      EXCEPT !.pendingConfirmation = TRUE],
   [NewSession("Ben", "Thursday", <<Today + 1>>, HHMM(0, 25), HHMM(1, 0))
      EXCEPT !.cancelled = TRUE, !.cancelReason = "other", !.cancelledAt = TRUE],
   NewSession("Ben", "Thursday", <<Today + 1 + 7>>, HHMM(0, 30), HHMM(1, 0))}

\* One lesson, or two lessons that are due in the same minutes.
CloudStores ==
  {<<a>> : a \in CloudSessions}
  \cup {<<NewSession("Asha", "Thursday", <<Today + 1>>, HHMM(0, 15), HHMM(1, 0)),
          NewSession("Ben", "Thursday", <<Today + 1>>, HHMM(0, 16), HHMM(1, 0))>>}

\* The tutor document holds a token and the lessons; no run has begun.
InitCloud ==
  /\ ReminderPageOpen
  /\ NoRunBegun
  /\ notificationsEnabled = FALSE
  /\ classes = <<>>
  /\ persisted = <<>>
  /\ tutorClasses \in CloudStores

NextCloud ==
  \/ \E k \in 1..MaxInvocations :
       \/ CheckClassReminders(k)
       \/ NotifiedGet(k)
       \/ MessagingSend(k)
       \/ MessagingSendRejected(k)
       \/ NotifiedSet(k)
       \/ NotifiedSetRejected(k)
  \/ MinutePasses

SpecCloud == InitCloud /\ [][NextCloud]_vars

\* --------------------------------------- the date of a weekday by the clock
\* Local times of day at which the page is used: before and after the
\* local time at which the UTC date changes in Asia/Kolkata (05:30) and in
\* a zone five hours behind UTC (19:00).
WeekdayClockTimes == {5 * 60, 6 * 60, 20 * 60}

UTCOffsets == {KolkataOffset, 0 - 5 * 60}

\* Time passes within the day, to one of the times the page is used at.
TimeOfDayPasses ==
  /\ ~ui.modal /\ draggedClassIndex = 0
  /\ \E t \in WeekdayClockTimes : t > nowMin /\ nowMin' = t
  /\ UNCHANGED <<cloudVars, storeVars, ledgerVars, pageVars, today, tzOffset, reportOffset,
                 probeVars, dragVars, formVars, currentWeekOffset>>

\* First visit, early in the morning of the Wednesday, in either zone.
InitWeekday ==
  /\ CloudIdle
  /\ editingIndex = 0
  /\ currentWeekOffset = 0
  /\ allowClashOverride = FALSE
  /\ draggedClassIndex = 0
  /\ isCopyDrag = FALSE
  /\ ui = HiddenUI
  /\ studentRates = <<>>
  /\ paymentStatus = <<>>
  /\ defaultRate = InitialDefaultRate
  /\ storage = FirstVisitStorage
  /\ selectedClasses = {}
  /\ isSelectMode = FALSE
  /\ notificationsEnabled = FALSE
  /\ notifiedClasses = {}
  /\ reminders = <<>>
  /\ reportOffset = 0
  /\ today = Today
  /\ nowMin = 5 * 60
  /\ tzOffset \in UTCOffsets
  /\ classes = <<>>
  /\ persisted = <<>>
  /\ probeArgs = <<>>
  /\ probeResult = <<>>

NextWeekday ==
  \/ OpenAddModal
  \/ CloseModal
  \/ \E f \in FilledForms : HandleFormSubmit(f[1], f[2], f[3], f[4])
  \/ \E index \in 1..MaxClasses : HandleDragStart(index)
  \/ HandleDragEnd
  \/ \E targetDay \in DayInputs : HandleDrop(targetDay)
  \/ \E direction \in {-1, 1} : NavigateWeek(direction)
  \/ TimeOfDayPasses

SpecWeekday == InitWeekday /\ [][NextWeekday]_vars

\* ------------------------------------------- deletions and the reload
\* The page holds one or two lessons and an auto backup; lessons are
\* deleted from the modal or in select mode, and the page is loaded again.
InitDeletion ==
  /\ InitIndex
  /\ classes # <<>>

NextDeletion ==
  \/ \E index \in 1..MaxClasses : OpenEditModal(index)
  \/ CloseModal
  \/ HandleDelete
  \/ EnterSelectMode
  \/ ExitSelectMode
  \/ \E index \in 1..MaxClasses : ToggleClassSelection(index)
  \/ SelectAllClasses
  \/ \E confirmed \in BOOLEAN : DeleteSelectedClasses(confirmed)
  \/ LoadPage

SpecDeletion == InitDeletion /\ [][NextDeletion]_vars

\* ------------------------------------------ the ledger under the edits
\* The timetable page and the report together: sessions are added, edited
\* and deleted through the modal, and marked paid in the report of this
\* week.
\* The Mark Paid dialog of the report, opened and saved while the session
\* modal is closed.
ShowMarkPaidDialog(student, checked) ==
  /\ ~ui.modal
  /\ SavePayments(student, checked)

NextLedger ==
  \/ OpenAddModal
  \/ \E index \in 1..MaxClasses : OpenEditModal(index)
  \/ CloseModal
  \/ \E f \in FilledForms : HandleFormSubmit(f[1], f[2], f[3], f[4])
  \/ HandleDelete
  \/ \E st \in StudentInputs, checked \in SUBSET (1..MaxClasses) :
       ShowMarkPaidDialog(st, checked)

SpecLedger == Init /\ [][NextLedger]_vars

\* ---------------------------------------------------- safeJsonParse alone
\* A stored text is a sequence of tokens, at most MaxTokens long.
MaxTokens == 3
JsonTokens == {"[", "]", "{", "}", "1", "null"}

\* A JSON value: its type and, for an array, the tokens of its elements.
JsonValue(type, items) == [type |-> type, items |-> items]

EmptyArray == JsonValue("array", <<>>)
EmptyObject == JsonValue("object", <<>>)

\* JSON.parse(text) on these texts: ok is FALSE where it throws a
\* SyntaxError. The texts that are JSON are a number, null, an empty array,
\* an array of one number or null, and an empty object.
JsonParse(text) ==
  LET Value(v) == [ok |-> TRUE, value |-> v]
  IN IF text = <<"1">> THEN Value(JsonValue("number", <<>>))
     ELSE IF text = <<"null">> THEN Value(JsonValue("null", <<>>))
     ELSE IF text = <<"[", "]">> THEN Value(EmptyArray)
     ELSE IF text = <<"{", "}">> THEN Value(EmptyObject)
     ELSE IF Len(text) = 3 /\ text[1] = "[" /\ text[2] \in {"1", "null"} /\ text[3] = "]"
     THEN Value(JsonValue("array", <<text[2]>>))
     ELSE [ok |-> FALSE, value |-> JsonValue("null", <<>>)]

\* safeJsonParse with the array branch left out.
safeJsonParse_noArrayBranch(item, defaultValue) ==
  IF item = <<>> THEN defaultValue
  ELSE LET parsed == JsonParse(item[1])
       IN IF ~parsed.ok THEN defaultValue
          ELSE IF defaultValue.type \in {"array", "object"}
          THEN IF parsed.value.type \in {"array", "object"} THEN parsed.value
               ELSE defaultValue
          ELSE parsed.value

\* safeJsonParse(key, defaultValue), item being localStorage.getItem(key):
\* <<>> for null, <<text>> otherwise.
safeJsonParse(item, defaultValue) ==
  IF item = <<>> THEN defaultValue
  ELSE LET parsed == JsonParse(item[1])
       IN IF ~parsed.ok THEN defaultValue
          ELSE IF defaultValue.type = "array"
          THEN IF parsed.value.type = "array" THEN parsed.value ELSE defaultValue
          ELSE IF defaultValue.type = "object"
          THEN IF parsed.value.type = "object" THEN parsed.value ELSE defaultValue
          ELSE parsed.value

RECURSIVE Texts(_)
\* The token sequences of length n.
Texts(n) ==
  IF n = 0 THEN {<<>>} ELSE {Append(t, k) : t \in Texts(n - 1), k \in JsonTokens}

StoredItems == {<<>>} \cup {<<t>> : t \in UNION {Texts(n) : n \in 0..MaxTokens}}

\* The defaults of the calls: [] and {}, and a default that is neither.
ParseDefaults == {EmptyArray, EmptyObject, JsonValue("number", <<>>)}

InitParse ==
  /\ PageLoaded
  /\ classes = <<>>
  /\ persisted = <<>>
  /\ probeArgs \in StoredItems \X ParseDefaults
  /\ probeResult = <<>>

\* safeJsonParse is called on the stored item with the default.
ApplySafeJsonParse ==
  /\ probeArgs # <<>> /\ probeResult = <<>>
  /\ probeResult' = <<safeJsonParse(probeArgs[1], probeArgs[2])>>
  /\ UNCHANGED <<cloudVars, storeVars, ledgerVars, pageVars, clockVars, reportOffset, probeArgs,
                 dragVars, formVars, currentWeekOffset>>

NextParse == ApplySafeJsonParse

SpecParse == InitParse /\ [][NextParse]_vars

\* ------------------------------------------------------------ properties
\* Half-open overlap of two time ranges taken as minutes of the day.
MinutesOverlap(a, b) ==
  /\ ParseMinutes(a.start) < ParseMinutes(b.end)
  /\ ParseMinutes(b.start) < ParseMinutes(a.end)

\* Two sessions that hold the same calendar date.
SameDate(a, b) == HasDate(a) /\ a.date = b.date

\* The sessions a caller may offer to the gate with a date: any the form can
\* build for a displayed week, and any stored dated session.
GateCandidates ==
  {NewSession(s, d, DayDate(getWeekStartDate(w), IndexOfDay(d)), p[1], p[2]) :
     s \in StudentInputs, d \in DayInputs, w \in 0..MaxWeekOffset, p \in TimePairs}
  \cup {classes[j] : j \in {k \in 1..Len(classes) : HasDate(classes[k])}}

\* C1: any two distinct non-cancelled stored sessions on the same date have
\* non-overlapping time ranges unless at least one of them carries
\* allowedClash.
C1_NoUnflaggedOverlap ==
  \A i, j \in 1..Len(classes) :
    (/\ i # j
     /\ ~classes[i].cancelled /\ ~classes[j].cancelled
     /\ SameDate(classes[i], classes[j])
     /\ MinutesOverlap(classes[i], classes[j]))
    => (classes[i].allowedClash \/ classes[j].allowedClash)

\* C2: a candidate on the date of a stored non-cancelled session whose time
\* range overlaps it makes hasClash true, unless that session is the
\* excluded index; this also with a stored session as the candidate.
C2_GateSound ==
  \A c \in GateCandidates : \A i \in 1..Len(classes) : \A ex \in 0..Len(classes) :
    (/\ ~classes[i].cancelled
     /\ SameDate(c, classes[i])
     /\ MinutesOverlap(c, classes[i])
     /\ ex # i)
    => hasClash(c, ex)

\* Two stored non-cancelled sessions overlap on one date, the later one let
\* in by an override, and each, offered against the other, is caught by the
\* gate.
C2_Witness ==
  \E i, j \in 1..Len(classes) :
    /\ i < j
    /\ ~classes[i].cancelled /\ ~classes[j].cancelled
    /\ ~classes[i].allowedClash /\ classes[j].allowedClash
    /\ classes[i].day = classes[j].day
    /\ SameDate(classes[i], classes[j])
    /\ MinutesOverlap(classes[i], classes[j])
    /\ hasClash(classes[i], i) /\ hasClash(classes[j], j)

\* C3: when every stored session that overlaps a candidate on its date is
\* cancelled, hasClash of the candidate is false.
C3_CancelledInvisible ==
  \A c \in GateCandidates : \A ex \in 0..Len(classes) :
    (\A i \in 1..Len(classes) :
       (i # ex /\ SameDate(c, classes[i]) /\ MinutesOverlap(c, classes[i]))
         => classes[i].cancelled)
    => ~hasClash(c, ex)

\* A session stands next to a cancelled one of the same date and time
\* without an override: the gate let it in.
C3_Witness ==
  \E i, j \in 1..Len(classes) :
    /\ i # j
    /\ classes[i].cancelled /\ ~classes[j].cancelled
    /\ SameDate(classes[i], classes[j])
    /\ classes[i].start = classes[j].start /\ classes[i].end = classes[j].end
    /\ ParseMinutes(classes[j].start) < ParseMinutes(classes[j].end)
    /\ ~classes[i].allowedClash /\ ~classes[j].allowedClash
    /\ ~hasClash(classes[j], j)

\* C4: timesOverlap(a, b) is the half-open overlap of the two ranges taken
\* as minutes of the day, for all well-formed zero-padded HH:MM values; it
\* is symmetric, and a range ending at T does not overlap one starting at T.
C4_OverlapIsHalfOpen ==
  probeResult # <<>> =>
    LET a == probeArgs[1]
        b == probeArgs[2]
    IN /\ probeResult[1] = MinutesOverlap(a, b)
       /\ probeResult[1] = timesOverlap(b, a)
       /\ (a.end = b.start => ~probeResult[1])

\* timesOverlap has been called on two proper ranges that meet back to back.
C4_Witness ==
  /\ probeResult = <<FALSE>>
  /\ StrLT(probeArgs[1].start, probeArgs[1].end)
  /\ StrLT(probeArgs[2].start, probeArgs[2].end)
  /\ probeArgs[1].end = probeArgs[2].start

\* The candidates the handlers build from a form, and what makes a form
\* incomplete or its times ill-ordered.
FormCandidate(f) ==
  NewSession(f[1], f[2], DayDate(getWeekStartDate(currentWeekOffset), IndexOfDay(f[2])),
             f[3], f[4])

UndatedCandidate(f) == NewSession(f[1], f[2], NoDate, f[3], f[4])

InvalidForm(f) ==
  \/ f[1] = "" \/ f[2] = "" \/ f[3] = NoTime \/ f[4] = NoTime
  \/ f[3] # NoTime /\ f[4] # NoTime /\ ParseMinutes(f[4]) <= ParseMinutes(f[3])

SaveForms == FilledForms \cup NamelessForms

AllForms == FilledForms \cup NamelessForms \cup PartialForms

\* The session a card's copy or a drop on targetDay offers to the gate.
MovedTo(index, targetDay) ==
  [classes[index] EXCEPT
     !.day = targetDay,
     !.date = DayDate(getWeekStartDate(currentWeekOffset), IndexOfDay(targetDay))]

\* The form is one a save must refuse: name, day or time missing, or
\* end <= start; or the gate reports the candidate, no override being set.
RefusedForm(f, candidate) ==
  InvalidForm(f) \/ (hasClash(candidate, editingIndex) /\ ~allowClashOverride)

\* An outcome that leaves the collection and the persisted record alone.
StoreKept(r) == r.classes = classes /\ r.persisted = persisted

\* Whichever attempt the page offers in this state and refuses leaves the
\* collection and the persisted record as they are. The form save and the
\* check-with-student save refuse a missing name, day or time, an end not
\* after the start and a clash without the override; copy-to-days refuses a
\* missing name or time and a selection whose every day clashes (it has no
\* test of end against start); the copy dialog and the drop refuse a clash.
RefusalsKeepStore ==
  /\ ui.modal =>
       \A f \in SaveForms :
         /\ RefusedForm(f, FormCandidate(f))
              => StoreKept(handleFormSubmit(allowClashOverride, f[1], f[2], f[3], f[4]))
         /\ (AllowClashShown(f[2], f[3], f[4]) /\ InvalidForm(f))
              => StoreKept(handleFormSubmit(TRUE, f[1], f[2], f[3], f[4]))
  /\ (ui.modal /\ ui.checkWithStudentBtn) =>
       \A f \in AllForms :
         RefusedForm(f, UndatedCandidate(f))
           => StoreKept(handleCheckWithStudent(f[1], f[2], f[3], f[4]))
  /\ (ui.modal /\ ui.copyToDaySection) =>
       \A f \in AllForms, checked \in SUBSET DayInputs :
         (\/ f[1] = "" \/ f[3] = NoTime \/ f[4] = NoTime
          \/ \A d \in checked : hasClash(FormCandidate(<<f[1], d, f[3], f[4]>>), 0))
           => StoreKept(handleCopyToDays(f[1], f[3], f[4], checked))
  /\ (~ui.modal /\ draggedClassIndex = 0) =>
       \A index \in 1..Len(classes), targetDay \in DayInputs :
         hasClash(MovedTo(index, targetDay), 0)
           => StoreKept(showCopyClassDialog(index, targetDay))
  /\ draggedClassIndex \in 1..Len(classes) =>
       \A targetDay \in DayInputs :
         hasClash(MovedTo(draggedClassIndex, targetDay),
                  IF isCopyDrag THEN 0 ELSE draggedClassIndex)
           => StoreKept(handleDrop(targetDay))

\* A step of one of these handlers on an attempt it must refuse.
RefusedAttempt ==
  \/ \E f \in SaveForms :
       /\ RefusedForm(f, FormCandidate(f))
       /\ HandleFormSubmit(f[1], f[2], f[3], f[4])
  \/ \E f \in SaveForms :
       /\ InvalidForm(f)
       /\ HandleAllowClash(f[1], f[2], f[3], f[4])
  \/ \E f \in AllForms :
       /\ RefusedForm(f, UndatedCandidate(f))
       /\ HandleCheckWithStudent(f[1], f[2], f[3], f[4])
  \/ \E f \in AllForms, checked \in SUBSET DayInputs :
       /\ \/ f[1] = "" \/ f[3] = NoTime \/ f[4] = NoTime
          \/ \A d \in checked : hasClash(FormCandidate(<<f[1], d, f[3], f[4]>>), 0)
       /\ HandleCopyToDays(f[1], f[3], f[4], checked)
  \/ \E index \in 1..Len(classes), targetDay \in DayInputs :
       /\ hasClash(MovedTo(index, targetDay), 0)
       /\ ShowCopyClassDialog(index, targetDay)
  \/ \E targetDay \in DayInputs :
       /\ draggedClassIndex \in 1..Len(classes)
       /\ hasClash(MovedTo(draggedClassIndex, targetDay),
                   IF isCopyDrag THEN 0 ELSE draggedClassIndex)
       /\ HandleDrop(targetDay)

\* C5: a refused save, copy or drop leaves the session collection, the
\* persisted record, the rate table and the payment ledger as they were.
C5_RefusalChangesNothing ==
  /\ []RefusalsKeepStore
  /\ [][UNCHANGED <<studentRates, paymentStatus>> \/ ~RefusedAttempt]_vars

\* A save has just been refused for a clash: the warning is up over an
\* unchanged, saved timetable.
C5_Witness ==
  /\ ui.modal /\ ui.formClashWarning /\ ~allowClashOverride
  /\ classes # <<>> /\ persisted = classes
  /\ \E f \in FilledForms : ~InvalidForm(f) /\ hasClash(FormCandidate(f), editingIndex)

\* C6: a save that runs with the override (dispatched by handleAllowClash,
\* or the next one after it when that one was refused for its fields)
\* stores its record with allowedClash set and leaves every other record as
\* it was; allowClashOverride is false whenever the modal is closed, so the
\* save after it meets the gate again.
C6_OverrideOnce ==
  /\ ~ui.modal => ~allowClashOverride
  /\ ui.modal =>
       \A f \in SaveForms :
         (allowClashOverride \/ AllowClashShown(f[2], f[3], f[4])) =>
           LET r == handleFormSubmit(TRUE, f[1], f[2], f[3], f[4])
               k == IF editingIndex # 0 THEN editingIndex ELSE Len(classes) + 1
           IN r.closes =>
                /\ Len(r.classes) = (IF editingIndex # 0 THEN Len(classes) ELSE Len(classes) + 1)
                /\ r.classes[k].allowedClash
                /\ \A i \in 1..Len(classes) : i # k => r.classes[i] = classes[i]
                /\ r.persisted = r.classes

\* An overridden save has happened: the flagged record stands beside the
\* unflagged one it overlaps, and the override is off again.
C6_Witness ==
  /\ ~ui.modal /\ ~allowClashOverride
  /\ persisted = classes
  /\ \E i, j \in 1..Len(classes) :
       /\ i < j
       /\ ~classes[i].cancelled /\ ~classes[j].cancelled
       /\ SameDate(classes[i], classes[j])
       /\ MinutesOverlap(classes[i], classes[j])
       /\ ~classes[i].allowedClash /\ classes[j].allowedClash
       /\ hasClash(classes[j], j)

\* Every stored session has a date, the date of its weekday in some week.
AllDatedByWeekday ==
  \A i \in 1..Len(classes) :
    /\ HasDate(classes[i])
    /\ IndexOfDay(classes[i].day) # -1
    /\ (classes[i].date[1] - IndexOfDay(classes[i].day)) % 7 = 0

\* Another non-cancelled session on the calendar date of classes[index]
\* overlaps its time range.
SameDateOverlap(index) ==
  \E i \in 1..Len(classes) :
    /\ i # index
    /\ ~classes[i].cancelled
    /\ SameDate(classes[index], classes[i])
    /\ MinutesOverlap(classes[index], classes[i])

\* handleRestoreClass can run and clear the cancellation of the session in
\* the modal, leaving the rest of it and the other sessions as they are.
RestoreSucceeds ==
  /\ HandleRestoreClass
  /\ classes' = [classes EXCEPT ![editingIndex].cancelled = FALSE,
                                ![editingIndex].cancelReason = "",
                                ![editingIndex].cancelledAt = FALSE]
  /\ persisted' = classes'

\* C7: with the restore section shown for a cancelled session,
\* handleRestoreClass is rejected, changing nothing, exactly when another
\* non-cancelled session on the same calendar date overlaps it; otherwise it
\* clears cancelled, cancelReason and cancelledAt. (Stated over timetables
\* whose sessions all carry the date of their weekday.)
C7_RestoreBlockedBySameDate ==
  (/\ ui.modal /\ ui.restoreSection /\ editingIndex # 0
   /\ AllDatedByWeekday)
  => /\ SameDateOverlap(editingIndex) => ~ENABLED (HandleRestoreClass /\ classes' # classes)
     /\ ~SameDateOverlap(editingIndex) => ENABLED RestoreSucceeds

\* C8: every stored session has its end strictly after its start.
C8_EndAfterStart ==
  \A i \in 1..Len(classes) :
    ParseMinutes(classes[i].start) < ParseMinutes(classes[i].end)

\* C9: every session a step adds to the collection carries a date, the
\* calendar date of its weekday in the displayed week or, for the copy to
\* next week, in the week after it.
C9_CreatedWithDate ==
  [][Len(classes') > Len(classes) =>
       \A k \in (Len(classes) + 1)..Len(classes') :
         /\ HasDate(classes'[k])
         /\ \E w \in {currentWeekOffset, currentWeekOffset + 1} :
              classes'[k].date = <<getWeekStartDate(w) + IndexOfDay(classes'[k].day)>>]_vars

\* C10: for a confirmed session of the report range without completedDate,
\* isClassCompleted is true exactly when its date is before today, or is
\* today with the current time past its end.
C10_CompletedIffPast ==
  LET range == getReportDateRange
      classesInRange == getClassesInRange(classes, range.startDate, range.endDate)
  IN \A k \in 1..Len(classesInRange) :
       LET cls == classesInRange[k]
       IN (~cls.cancelled /\ ~cls.pendingConfirmation /\ ~cls.completedDate)
          => (isClassCompleted(cls)
                <=> (\/ cls.date[1] < today
                     \/ cls.date[1] = today /\ nowMin > ParseMinutes(cls.end)))

\* The confirmed sessions of the report range, as renderReport classifies
\* them.
ConfirmedInRange ==
  LET range == getReportDateRange
      classesInRange == getClassesInRange(classes, range.startDate, range.endDate)
      IsConfirmed(c) == ~c.cancelled /\ ~c.pendingConfirmation
  IN SelectSeq(classesInRange, IsConfirmed)

\* (date, end) of a is chronologically before that of b.
EndsBefore(a, b) ==
  \/ a.date[1] < b.date[1]
  \/ a.date[1] = b.date[1] /\ ParseMinutes(a.end) < ParseMinutes(b.end)

\* C11: of two confirmed sessions in the report range, the one that ends
\* earlier is never Upcoming while the one that ends later is Completed.
C11_CompletionMonotonic ==
  \A i, j \in 1..Len(ConfirmedInRange) :
    LET a == ConfirmedInRange[i]
        b == ConfirmedInRange[j]
    IN EndsBefore(a, b) => ~(~isClassCompleted(a) /\ isClassCompleted(b))

\* C12: a confirmed session dated today is Completed only when the current
\* time is strictly later than its end; at its end time it is not yet
\* Completed.
C12_CompletedOnlyPastEnd ==
  \A k \in 1..Len(ConfirmedInRange) :
    LET cls == ConfirmedInRange[k]
    IN cls.date[1] = today => (isClassCompleted(cls) => nowMin > ParseMinutes(cls.end))

\* The sessions of the range that are neither cancelled nor pending.
OnlyConfirmed(cr) == SelectSeq(cr, LAMBDA c : ~c.cancelled /\ ~c.pendingConfirmation)

\* The completed sessions of a student in the order of the Mark Paid dialog.
CompletedOf(cr, student) ==
  SelectSeq(cr, LAMBDA c : c.student = student /\ statsBucket(c) = "completed")

\* C13: in the period summary, the per-student statistics and amounts, and
\* the per-weekday chart, the completed (and paid) counts, minutes and
\* amounts are what they would be with the cancelled and the pending
\* sessions taken out of the range.
C13_CancelledPendingNotCompleted ==
  LET cr == ClassesInRange
      only == OnlyConfirmed(cr)
  IN /\ reportSummary(cr).completedCount = reportSummary(only).completedCount
     /\ reportSummary(cr).completedMinutes = reportSummary(only).completedMinutes
     /\ \A st \in BillingStudents :
          LET a == studentStats(cr, paymentStatus, st)
              b == studentStats(only, paymentStatus, st)
          IN /\ a.completed = b.completed
             /\ a.completedMinutes = b.completedMinutes
             /\ a.paidClasses = b.paidClasses
             /\ a.paidMinutes = b.paidMinutes
             /\ a.completedClassIds = b.completedClassIds
             /\ studentRow(cr, paymentStatus, st).amount
                  = studentRow(only, paymentStatus, st).amount
             /\ studentRow(cr, paymentStatus, st).paidAmountForStudent
                  = studentRow(only, paymentStatus, st).paidAmountForStudent
     /\ \A i \in 1..Len(DAYS) :
          /\ dayEarnings(cr, paymentStatus, DAYS[i]).completed
               = dayEarnings(only, paymentStatus, DAYS[i]).completed
          /\ dayEarnings(cr, paymentStatus, DAYS[i]).paid
               = dayEarnings(only, paymentStatus, DAYS[i]).paid

\* A cancelled session of a day that has passed stands in the report next to
\* a completed one of the same student, whose amount alone is billed, at a
\* rate set in the table.
C13_Witness ==
  /\ Len(ClassesInRange) = 2
  /\ \E i, j \in 1..2 :
       /\ ClassesInRange[i].cancelled /\ ClassesInRange[i].date[1] < today
       /\ ~ClassesInRange[j].cancelled /\ ~ClassesInRange[j].pendingConfirmation
       /\ ClassesInRange[i].student = ClassesInRange[j].student
       /\ ClassesInRange[j].student \in DOMAIN studentRates
       /\ reportSummary(ClassesInRange).completedCount = 1
       /\ studentRow(ClassesInRange, paymentStatus, ClassesInRange[j].student).amount
            = classAmount(ClassesInRange[j])
       /\ classAmount(ClassesInRange[j]) > 0

\* C14: a student's reported amount is the sum over the student's completed
\* sessions of round(minutes / 60 * rate), and the grand total is the sum
\* of the students' amounts.
C14_PerSessionRounding ==
  LET cr == ClassesInRange
  IN /\ \A st \in ReportStudents(cr) :
          LET done == CompletedOf(cr, st)
          IN studentRow(cr, paymentStatus, st).amount
               = SumFn([i \in 1..Len(done) |-> classAmount(done[i])])
     /\ reportTotals(cr, paymentStatus).totalAmount
          = SumFn([st \in ReportStudents(cr) |-> studentRow(cr, paymentStatus, st).amount])

\* C15: for every student of the period, the paid and the unpaid amount are
\* non-negative and add up to the student's completed amount.
C15_PaidPlusUnpaid ==
  \A st \in ReportStudents(ClassesInRange) :
    LET row == studentRow(ClassesInRange, paymentStatus, st)
    IN /\ row.paidAmountForStudent >= 0
       /\ row.unpaidAmount >= 0
       /\ row.paidAmountForStudent + row.unpaidAmount = row.amount

\* C16: the students' completed minutes add up to the period's completed
\* minutes, and their completed counts to the period's completed count.
C16_MinutesConserved ==
  LET cr == ClassesInRange
      stats == [st \in ReportStudents(cr) |-> studentStats(cr, paymentStatus, st)]
  IN /\ SumFn([st \in ReportStudents(cr) |-> stats[st].completedMinutes])
          = reportSummary(cr).completedMinutes
     /\ SumFn([st \in ReportStudents(cr) |-> stats[st].completed])
          = reportSummary(cr).completedCount

\* Two students each have a completed session in the report, and payments
\* have been saved.
C16_Witness ==
  /\ \A st \in BillingStudents :
       studentStats(ClassesInRange, paymentStatus, st).completedMinutes > 0
  /\ reportSummary(ClassesInRange).completedCount = 2
  /\ DOMAIN paymentStatus # {}

\* The ledger after the Mark Paid dialog of a student is saved with the k-th
\* box alone toggled.
ToggledAndSaved(student, k) ==
  LET ids == studentStats(ClassesInRange, paymentStatus, student).completedClassIds
      was == {j \in 1..Len(ids) : IsPaid(paymentStatus, ids[j])}
      checked == IF k \in was THEN was \ {k} ELSE was \cup {k}
  IN savePayments(paymentStatus, ids, checked, 1)

\* C17: marking one completed session paid (or unpaid) in the Mark Paid
\* dialog moves that session's amount between the student's paid and
\* unpaid amounts, leaves the student's total as it is and changes the paid
\* flag of no other ledger entry.
C17_MarkPaidMovesOne ==
  \A st \in ReportStudents(ClassesInRange) :
    LET cr == ClassesInRange
        row == studentRow(cr, paymentStatus, st)
        done == CompletedOf(cr, st)
    IN row.markPaidBtn =>
         \A k \in 1..Len(done) :
           LET ps2 == ToggledAndSaved(st, k)
               row2 == studentRow(cr, ps2, st)
               moved == IF IsPaid(paymentStatus, getClassPaymentId(done[k]))
                        THEN 0 - classAmount(done[k]) ELSE classAmount(done[k])
           IN /\ row2.paidAmountForStudent = row.paidAmountForStudent + moved
              /\ row2.unpaidAmount = row.unpaidAmount - moved
              /\ row2.amount = row.amount
              /\ \A key \in (DOMAIN paymentStatus \cup DOMAIN ps2) \ {getClassPaymentId(done[k])} :
                   IsPaid(ps2, key) = IsPaid(paymentStatus, key)

\* C18: the rate a student is billed at is the student's entry in the rate
\* table whenever there is one, an entry of 0 included, and the default
\* rate only when there is none.
C18_RateFromTable ==
  \A st \in BillingStudents :
    rateOf(st) = (IF st \in DOMAIN studentRates THEN studentRates[st] ELSE defaultRate)

\* The date of the day the suggestions were asked for, in the displayed week.
TargetDate == DayDate(getWeekStartDate(currentWeekOffset), IndexOfDay(probeArgs[1]))

\* The indices of the booked sessions of the target date: stored, not
\* cancelled, not the session being edited.
BookedOnTarget ==
  {i \in 1..Len(classes) :
     i # editingIndex /\ ~classes[i].cancelled /\ classes[i].date = TargetDate}

\* C19: every slot that findAvailableSlots returns for the selected duration
\* d is exactly d minutes long and overlaps no stored session of the target
\* date that is not cancelled and is not the session being edited.
C19_SlotsFitAndFree ==
  probeResult # <<>> =>
    \A k \in 1..Len(probeResult[1]) :
      LET slot == probeResult[1][k]
      IN /\ getMinutesBetween(slot.start, slot.end) = probeArgs[2]
         /\ \A i \in BookedOnTarget : ~MinutesOverlap(slot, classes[i])

\* The booked sessions of the target date alone, in their stored order.
BookedStore ==
  [k \in 1..Cardinality(BookedOnTarget) |->
     classes[CHOOSE i \in BookedOnTarget :
               Cardinality({j \in BookedOnTarget : j < i}) = k - 1]]

\* C20: findAvailableSlots returns the slots it returns on the booked
\* sessions of the target date alone: cancelled sessions, and sessions of
\* the same weekday in another week, change nothing.
C20_OnlyBookedReduce ==
  probeResult # <<>> =>
    probeResult[1] = findAvailableSlotsIn(BookedStore, 0, probeArgs[1], probeArgs[2])

\* C21: findAvailableSlots returns at most 4 slots, in strictly increasing
\* order of start, each lying within the working hours 08:00 to 20:00.
C21_SlotsBoundedOrderedInHours ==
  probeResult # <<>> =>
    LET slots == probeResult[1]
    IN /\ Len(slots) <= 4
       /\ \A k \in 1..Len(slots) - 1 :
            ParseMinutes(slots[k].start) < ParseMinutes(slots[k + 1].start)
       /\ \A k \in 1..Len(slots) :
            /\ WORKING_HOURS.start * 60 <= ParseMinutes(slots[k].start)
            /\ ParseMinutes(slots[k].start) <= ParseMinutes(slots[k].end)
            /\ ParseMinutes(slots[k].end) <= WORKING_HOURS.end * 60

\* C22: after every handler that changes the session collection has run,
\* the localStorage record "classes" is the serialisation of the collection
\* in memory.
C22_PersistedIsCollection == persisted = saveClasses(classes)

\* A file the import must reject: it does not parse, has no data or no
\* data.classes, or its data.classes holds an entry that is no session.
RejectedFile(file) ==
  \/ ~file.parses \/ ~file.data \/ file.classes = <<>>
  \/ \E i \in 1..Len(file.classes[1]) : IsNull(file.classes[1][i])

\* C23: the import of a file that must be rejected reports an error and
\* leaves classes, studentRates, paymentStatus, defaultRate and their
\* copies in localStorage as they were.
C23_ImportAllOrNothing ==
  \A file \in ImportFiles :
    RejectedFile(file) =>
      LET m == importData(file, TRUE)
      IN /\ m.source = "error"
         /\ m.classes = classes /\ m.persisted = persisted
         /\ m.studentRates = studentRates /\ m.paymentStatus = paymentStatus
         /\ m.defaultRate = defaultRate /\ m.storage = storage

\* The stored item of the call holds a text that is not JSON.
Malformed(item) == item # <<>> /\ ~JsonParse(item[1]).ok

\* C24: safeJsonParse returns the default when the stored value is
\* malformed, when an array is expected and the value is not an array, and
\* when an object is expected and the value is an array, null or a
\* primitive; it returns the parsed value when the shape matches.
C24_SafeParseFallsBack ==
  probeResult # <<>> =>
    LET item == probeArgs[1]
        defaultValue == probeArgs[2]
        result == probeResult[1]
        parsed == JsonParse(item[1]).value
    IN /\ Malformed(item) => result = defaultValue
       /\ item # <<>> /\ ~Malformed(item) =>
            /\ defaultValue = EmptyArray /\ parsed.type # "array" => result = defaultValue
            /\ defaultValue = EmptyObject /\ parsed.type \in {"array", "null", "number"}
                 => result = defaultValue
            /\ parsed.type = defaultValue.type => result = parsed

\* An array was stored where an object is expected, and the call has
\* returned the empty object.
C24_Witness ==
  /\ probeResult = <<EmptyObject>>
  /\ probeArgs[2] = EmptyObject
  /\ probeArgs[1] = <<(<<"[", "1", "]">>)>>

\* The module state m holds the backup's collection, rates, ledger and
\* default rate, and localStorage holds them too.
HoldsBackup(m, backup) ==
  /\ m.classes = backup.classes /\ m.persisted = saveClasses(backup.classes)
  /\ m.studentRates = backup.studentRates /\ m.storage.studentRates = backup.studentRates
  /\ m.paymentStatus = backup.paymentStatus
  /\ m.storage.paymentStatus = backup.paymentStatus
  /\ m.defaultRate = backup.defaultRate /\ m.storage.defaultRate = <<backup.defaultRate>>

\* C25: a load that finds the collection empty takes the most recent auto
\* backup if it holds sessions, else the most recent cleanup backup if that
\* holds sessions, and replaces and persists the collection, the rates, the
\* ledger and the default rate; a load that finds sessions leaves
\* everything to checkAndRecoverData as it was read.
C25_RecoversFromBackup ==
  LET m == FromStorage
      r == checkAndRecoverData(m)
      autoBackups == storage.autoBackups
      cleanupBackups == storage.cleanupBackups
  IN IF persisted # <<>> THEN r = m
     ELSE IF autoBackups # <<>> /\ autoBackups[1].classes # <<>>
     THEN HoldsBackup(r, autoBackups[1])
     ELSE IF cleanupBackups # <<>> /\ cleanupBackups[1].classes # <<>>
     THEN HoldsBackup(r, cleanupBackups[1])
     ELSE TRUE

\* The page was loaded with an empty collection and has recovered the
\* sessions of its auto backup, whose default rate was not the one stored.
C25_Witness ==
  /\ probeArgs = <<"init">> /\ probeResult = <<"auto">>
  /\ classes # <<>>
  /\ persisted = classes
  /\ defaultRate = storage.autoBackups[1].defaultRate

\* The indices no session of the collection has, the null of the model
\* among them.
StaleIndices == (-1..(Len(classes) + 1)) \ (1..Len(classes))

\* Every index the page keeps is null or the index of a session.
IndicesExist ==
  /\ editingIndex \in 0..Len(classes)
  /\ draggedClassIndex \in 0..Len(classes)
  /\ selectedClasses \subseteq 1..Len(classes)

C27_OneReminderPerDay ==
  \A i, j \in 1..Len(reminders) : i # j => reminders[i] # reminders[j]

\* Two sessions of the collection, neither cancelled nor flagged, are on
\* one calendar date and overlap.
UnresolvedClash ==
  \E i, j \in 1..Len(classes) :
    /\ i < j
    /\ ~classes[i].cancelled /\ ~classes[j].cancelled
    /\ SameDate(classes[i], classes[j])
    /\ timesOverlap(classes[i], classes[j])
    /\ ~classes[i].allowedClash /\ ~classes[j].allowedClash

\* C28: the clash banner is shown exactly when two stored sessions, neither
\* cancelled nor carrying allowedClash, are on the same calendar date and
\* overlap; the same weekday in different weeks does not raise it.
C28_BannerIffSameDateClash ==
  checkForClashes(classes) <=> UnresolvedClash

\* The collection holds a flagged session of the same student, weekday and
\* times as c, on the date of c or not dated yet.
FlagStays(c) ==
  \E k \in 1..Len(classes) :
    /\ classes[k].allowedClash
    /\ classes[k].student = c.student /\ classes[k].day = c.day
    /\ classes[k].start = c.start /\ classes[k].end = c.end
    /\ classes[k].date = c.date \/ ~HasDate(classes[k])

\* c is saved from the modal with the override while hasClash is true for
\* it.
FlagGiven(c) ==
  /\ ui.modal
  /\ allowClashOverride \/ AllowClashShown(c.day, c.start, c.end)
  /\ hasClash(c, editingIndex)

\* C29: a session carries allowedClash after a step only if it carried it
\* in its slot before the step or the step saved it through the override
\* while hasClash was true for it; a copy or a move of a flagged session to
\* a slot without a clash does not carry the flag.
C29_FlagOnlyByOverride ==
  [][\A i \in 1..Len(classes') :
       classes'[i].allowedClash => FlagStays(classes'[i]) \/ FlagGiven(classes'[i])]_vars

\* C30: a stored session that is not cancelled and has no date makes
\* hasClash true for every candidate of its weekday whose times overlap it,
\* the candidate the form builds with a date and the one built without.
C30_UndatedConflictsByWeekday ==
  \A i \in 1..Len(classes), f \in FilledForms :
    (/\ ~classes[i].cancelled /\ ~HasDate(classes[i])
     /\ ~InvalidForm(f)
     /\ f[2] = classes[i].day
     /\ timesOverlap(UndatedCandidate(f), classes[i]))
      => hasClash(FormCandidate(f), 0) /\ hasClash(UndatedCandidate(f), 0)

\* totalPaid, totalCompleted and totalUpcoming of the chart header over the
\* sessions cr.
chartTotals(cr, ps) ==
  [totalPaid |-> SumFn([k \in 1..7 |-> dayEarnings(cr, ps, DAYS[k]).paid]),
   totalCompleted |-> SumFn([k \in 1..7 |-> dayEarnings(cr, ps, DAYS[k]).completed]),
   totalUpcoming |-> SumFn([k \in 1..7 |-> dayEarnings(cr, ps, DAYS[k]).upcoming])]

\* C31: over the sessions of the period and the ledger, the earnings chart
\* and the student report show the same paid amount and the same unpaid
\* amount of completed sessions.
C31_ChartAgreesWithReport ==
  LET chart == chartTotals(ClassesInRange, paymentStatus)
      report == reportTotals(ClassesInRange, paymentStatus)
  IN /\ chart.totalPaid = report.paidAmount
     /\ chart.totalCompleted = report.totalAmount - report.paidAmount

\* C32: no stored session is both cancelled and awaiting confirmation,
\* whatever the form, the check with the student, the cancel, restore and
\* confirm buttons, the copies and the drag have done.
C32_NeverCancelledAndPending ==
  \A i \in 1..Len(classes) : ~(classes[i].cancelled /\ classes[i].pendingConfirmation)

\* A stored session was sent for confirmation again through the edit form
\* (it is pending and keeps its date) and another one is cancelled.
C32_Witness ==
  /\ ~ui.modal /\ persisted = classes
  /\ \E i, j \in 1..Len(classes) :
       /\ classes[i].pendingConfirmation /\ HasDate(classes[i]) /\ ~classes[i].cancelled
       /\ classes[j].cancelled /\ ~classes[j].pendingConfirmation

\* C33: in a step that deletes nothing, a stored session stops being
\* cancelled only by handleRestoreClass on it and stops being pending only
\* by handleConfirmClass on it; a save of the edit form and a drag leave
\* both flags of the session as they were.
C33_FlagsOnlyByTransitions ==
  [][Len(classes') >= Len(classes) =>
       \A i \in 1..Len(classes) :
         /\ (classes[i].cancelled /\ ~classes'[i].cancelled)
              => (HandleRestoreClass /\ editingIndex = i)
         /\ (classes[i].pendingConfirmation /\ ~classes'[i].pendingConfirmation)
              => (HandleConfirmClass /\ editingIndex = i)]_vars

\* C34: every stored session that has a date has the weekday name of that
\* date as its day.
C34_DayIsWeekdayOfDate ==
  \A i \in 1..Len(classes) :
    HasDate(classes[i]) => classes[i].day = DAYS[(classes[i].date[1] % 7) + 1]

\* The report of the period shows session c as completed and paid under
\* the ledger ps.
ReportedPaid(c, ps) ==
  /\ ~c.cancelled /\ ~c.pendingConfirmation
  /\ isClassCompleted(c)
  /\ IsPaid(ps, getClassPaymentId(c))

\* C35: a save of the edit form leaves a session that the report showed as
\* paid shown as paid, as long as it is still completed and the ledger was
\* not written; and a session added by a save is not shown as paid.
C35_PaidStableUnderEdits ==
  [][(ui.modal /\ paymentStatus' = paymentStatus /\ classes' # classes) =>
       /\ (editingIndex # 0 /\ Len(classes') = Len(classes)
           /\ ReportedPaid(classes[editingIndex], paymentStatus)
           /\ isClassCompleted(classes'[editingIndex]))
            => ReportedPaid(classes'[editingIndex], paymentStatus')
       /\ (Len(classes') = Len(classes) + 1)
            => ~ReportedPaid(classes'[Len(classes')], paymentStatus')]_vars

\* C36: when every session has been deleted, the collection and its record
\* are empty, and the page is loaded again, the collection after init is
\* empty, whatever backups localStorage holds.
C36_DeletionSurvivesReload ==
  [][(classes = <<>> /\ persisted = <<>> /\ LoadPage) => classes' = <<>>]_vars

\* C37: every reminder the page's poll sends is for a session that is
\* neither cancelled nor pending, is dated the day of the poll, and starts
\* 14 to 16 minutes after it; a session of the same weekday dated another
\* week gets none.
C37_ReminderOnlyForTodayConfirmed ==
  [][\A k \in (Len(reminders) + 1)..Len(reminders') :
       LET c == classes[reminders'[k][2]]
       IN /\ reminders'[k][1] = today'
          /\ ~c.cancelled /\ ~c.pendingConfirmation
          /\ c.date = <<today'>>
          /\ ParseMinutes(c.start) - nowMin' \in 14..16]_vars

\* The poll has run on the day of session i, at least 16 minutes before
\* its start, and the session is confirmed.
PolledInTime(i) ==
  /\ i <= Len(classes) /\ notificationsEnabled
  /\ ~classes[i].cancelled /\ ~classes[i].pendingConfirmation
  /\ classes[i].date = <<today>>
  /\ ParseMinutes(classes[i].start) - nowMin >= 16

\* It is the day of session i, before its start, and a reminder naming its
\* student and its start has been sent on that day.
RemindedBeforeStart(i) ==
  /\ i <= Len(classes)
  /\ classes[i].date = <<today>> /\ nowMin < ParseMinutes(classes[i].start)
  /\ \E k \in 1..Len(reminders) :
       /\ reminders[k][1] = today
       /\ classes[reminders[k][2]].student = classes[i].student
       /\ classes[reminders[k][2]].start = classes[i].start

\* C38: with the notifications enabled and the poll running every minute,
\* a confirmed session that a poll of its day finds at least 16 minutes
\* ahead is reminded of before it starts, on the day the page was opened
\* and on the days after, the same weekly slot a week later included.
C38_ReminderEventuallySent ==
  \A i \in 1..MaxClasses : PolledInTime(i) ~> RemindedBeforeStart(i)

\* The sessions of the store have the weekday names of their dates.
WeeklySlotStore == classes \in WeeklySlots

\* The reminders of the weekly slots: both weeks are reminded of.
WeeklySlotsReminded ==
  \A i \in 1..MaxClasses : (WeeklySlotStore /\ PolledInTime(i)) ~> RemindedBeforeStart(i)

\* --------------------------------------------- C39: one cloud reminder
\* C39: the scheduled function delivers at most one reminder for a student,
\* date and start, whatever the overlap of its runs and whether or not the
\* write of a marker is rejected.
C39_OneCloudReminderPerSession ==
  \A a, b \in 1..Len(delivered) : delivered[a] = delivered[b] => a = b

\* Every reminder the function delivers is for a lesson of the tutor
\* document that does not await confirmation.
CloudRemindsConfirmedOnly ==
  \A a \in 1..Len(delivered) :
    \E i \in 1..Len(tutorClasses) :
      /\ notificationId(tutorClasses[i]) = delivered[a]
      /\ ~tutorClasses[i].pendingConfirmation

\* Every reminder the function delivers is for a lesson dated the IST day
\* it is delivered on or the day before (a run that began before midnight).
CloudRemindsDatedToday ==
  \A a \in 1..Len(delivered) : delivered[a][2] \in {<<today>>, <<today - 1>>}

\* ------------------------------------------ C40: the column of a weekday
\* The column of the displayed week that shows session i: the index of the
\* weekday whose dateStr is the date of the session, none when it is not
\* in the displayed week.
ColumnsOf(i) ==
  {k \in 0..6 : classes[i].date = DayDate(getWeekStartDate(currentWeekOffset), k)}

\* C40: at every time of day and in every zone, a stored session that the
\* grid of the displayed week shows is in the column of the weekday it was
\* saved for, and a session saved for the displayed week is shown in it.
C40_RenderedInItsWeekdayColumn ==
  \A i \in 1..Len(classes) : \A k \in ColumnsOf(i) : DAYS[k + 1] = classes[i].day

\* The date of every weekday of the displayed week is the same before and
\* after time passes within the day.
WeekdayDateKeptThroughDay ==
  [][TimeOfDayPasses =>
       \A k \in 0..6 : DayDate(getWeekStartDate(currentWeekOffset), k)'
                          = DayDate(getWeekStartDate(currentWeekOffset), k)]_vars

====
